---- MODULE Spec2Model ----
(***************************************************************************)
(* NotesApplication front end: the drag-and-drop contexts of               *)
(* utils/dnd-utils.jsx (NoteDndContext, FileDndContext), the API client    *)
(* services/noteService.js and the autosave of components/TipTapEditor.jsx.*)
(*                                                                         *)
(* The specifications of the module, by component:                         *)
(*   SpecNote, SpecNoteDrag   NoteDndContext, its owner, notes/reorder     *)
(*   SpecFileDrop, SpecFile   FileDndContext and its owner                 *)
(*   SpecEditor               TipTapEditor's debounced autosave            *)
(*   SpecFileHover, SpecFileSeq  drag-over, watchdog, successive drags     *)
(*   SpecFormat, SpecService  the format change; the API client            *)
(*   SpecRegistry, SpecMouse  window.tiptapEditors; the mouse-move handler *)
(*   SpecFormatEdit, SpecServiceLists  edits after a format change; the   *)
(*                            lists the API client resolves with           *)
(* The components a specification is not about stay parked.                *)
(***************************************************************************)
EXTENDS Integers, Sequences, FiniteSets, TLC

VARIABLES
    \* ---- NoteDndContext and its owner ----
    items,          \* the `items` prop: the client's ordered notes of the open file
    serverOrder,    \* the note table's order column, by server key
    noteInflight,   \* reorder calls whose promise has not settled yet
    lastApplied,    \* the id list the reorder endpoint applied last (<<>>: none yet)
    lastNote,       \* the last event of this component: a drag end or a settled call
    \* ---- FileDndContext and its owner ----
    files,          \* the `files` prop: the client's files
    dndActive,      \* the id the drag library is dragging (NoDrag: none)
    activeFileId,   \* React state of FileDndContext
    hoverFolderId,  \* React state of FileDndContext
    isDragging,     \* React state of FileDndContext
    lastFile,       \* the last event of this component
    dragStartTime,  \* React state of FileDndContext
    watchdog,       \* the timer of the watchdog effect
    clock,          \* Date.now(), in ticks
    expanded,       \* the folders whose content region is rendered and displayed
    highlight,      \* the highlight styling of each folder's header and content region
    lastMove,       \* the coordinates of the gesture's last drag-move event
    deferred,       \* the deferred cleanups (setTimeout of handleDragEnd) still pending
    \* ---- TipTapEditor ----
    now,            \* the clock, in ticks
    note,           \* the `note` prop
    closureNote,    \* the `note` the registered handleUpdate closed over
    saving,         \* the saves whose response has not arrived yet
    editorHTML,     \* editor.getHTML()
    onUpdateGen,    \* the identity of the `onUpdate` prop (it counts the changes)
    timers,         \* the pending timer of each debounced function made so far
    burst,          \* the current burst of editor updates
    lastEdit,       \* the last event of this component
    \* ---- noteService ----
    isProd,         \* import.meta.env.PROD
    requests,       \* the service calls whose HTTP request has not ended yet
    lastCall,       \* the last service call that settled
    \* ---- the editor registry (window.tiptapEditors) ----
    mounted,        \* the note id of each editor component (Unmounted: not mounted)
    registry,       \* window.tiptapEditors: the editor held under each key
    lastReg,        \* the last event of the registry
    \* ---- the throttled mouse-move handler of FileDndContext ----
    mouse,          \* the throttle of the installed handler, and the window timers
                    \* of the handlers it replaced that are still pending
    lastMouse       \* the last mouse-move event

noteVars == <<items, serverOrder, noteInflight, lastApplied, lastNote>>
fileVars ==
    <<files, dndActive, activeFileId, hoverFolderId, isDragging, lastFile,
      dragStartTime, watchdog, clock, expanded, highlight, lastMove,
      deferred>>
editorVars ==
    <<now, note, closureNote, saving, editorHTML, onUpdateGen, timers, burst, lastEdit>>
serviceVars == <<isProd, requests, lastCall>>
registryVars == <<mounted, registry, lastReg>>
mouseVars == <<mouse, lastMouse>>
vars == <<noteVars, fileVars, editorVars, serviceVars, registryVars, mouseVars>>

-----------------------------------------------------------------------------
(* JavaScript values.  A value is a record [t, v]: t its type, v its text  *)
(* (a string's characters, a number's single value).                       *)

Null == [t |-> "null", v |-> <<>>]
Undefined == [t |-> "undefined", v |-> <<>>]
Num(n) == [t |-> "number", v |-> <<n>>]
Str(s) == [t |-> "string", v |-> s]
NaN == [t |-> "NaN", v |-> <<>>]
Infinity == [t |-> "Infinity", v |-> <<>>]
EmptyStr == Str(<<>>)

\* The characters of the decimal digits and of the words String() can produce.
DigitChar(n) == <<"0", "1", "2", "3", "4", "5", "6", "7", "8", "9">>[n + 1]
NullText == <<"n", "u", "l", "l">>
UndefinedText == <<"u", "n", "d", "e", "f", "i", "n", "e", "d">>

\* String(x), for the one-digit numbers the model uses.
String(x) ==
    CASE x.t = "string" -> x
      [] x.t = "number" -> Str(<<DigitChar(x.v[1])>>)
      [] x.t = "null" -> Str(NullText)
      [] OTHER -> Str(UndefinedText)

\* JavaScript truthiness: null, undefined, 0 and '' are falsy.
Truthy(x) ==
    /\ x.t \notin {"null", "undefined"}
    /\ x # Num(0)
    /\ x # EmptyStr

\* a || b
OrElse(a, b) == IF Truthy(a) THEN a ELSE b

-----------------------------------------------------------------------------
(* Arrays are 0-based in the source; sequences are 1-based here.           *)

At(s, i) == s[i + 1]

\* Array.prototype.findIndex with the test String(item.id) === String(id)
FindIndexById(arr, id) ==
    IF \E i \in 1..Len(arr) : String(arr[i].id) = String(id)
    THEN (CHOOSE i \in 1..Len(arr) :
            /\ String(arr[i].id) = String(id)
            /\ \A j \in 1..(i - 1) : String(arr[j].id) # String(id)) - 1
    ELSE -1

\* splice(i, 1): the array without its element at index i
SpliceOut(arr, i) ==
    [k \in 1..(Len(arr) - 1) |-> IF k <= i THEN arr[k] ELSE arr[k + 1]]

\* splice(i, 0, x): the array with x inserted at index i (clamped to the length)
SpliceIn(arr, i, x) ==
    LET at == IF i > Len(arr) THEN Len(arr) ELSE i
    IN  [k \in 1..(Len(arr) + 1) |->
            IF k <= at THEN arr[k] ELSE IF k = at + 1 THEN x ELSE arr[k - 1]]

\* A slip of the kind an index-swap implementation makes: exchange the two items.
arrayMoveSwapped(array, from, to) ==
    [k \in 1..Len(array) |->
        IF k = from + 1 THEN At(array, to)
        ELSE IF k = to + 1 THEN At(array, from) ELSE array[k]]

\* A slip that loses the dragged item: it is removed and never re-inserted.
arrayMoveDropped(array, from, to) == SpliceOut(array, from)

\* arrayMove of @dnd-kit/sortable: slice, splice the item out, splice it in at `to`.
arrayMove(array, from, to) ==
    SpliceIn(SpliceOut(array, from),
             IF to < 0 THEN Len(array) + to ELSE to,
             At(array, from))

-----------------------------------------------------------------------------
(* NoteDndContext (dnd-utils.jsx) with the owner of its props.             *)

NumNotes == 2
MaxInFlight == 1
MaxItems == 4

NoteKeys == 1..NumNotes

\* The forms in which the client holds the ids of a list: the server's numbers
\* (createNote returns the server's JSON unchanged), their strings
\* (noteService.getNotes stringifies), or both in one list.
IdForms == {"number", "string", "mixed"}

NoteId(form, k) ==
    IF form = "number" \/ (form = "mixed" /\ k % 2 = 1) THEN Num(k) ELSE String(Num(k))

\* An id that is in no list (a note deleted while the gesture was in progress).
ForeignId == Str(<<"x">>)

\* SortableContext items={items.map(item => String(item.id))}
SortableIds(arr) == {String(arr[i].id) : i \in 1..Len(arr)}

NoOver == Null

\* The record of the last event: a drag end (what it was given, the list before
\* it, the onReorder calls it made) or a settled call (its ids, the list before
\* its drag, how it ended and whether the failure was reported).
NoEvent == [kind |-> "none", active |-> Null, over |-> Null, before |-> <<>>,
            calls |-> <<>>, ids |-> <<>>, http |-> "none", surfaced |-> FALSE]
DragEvent(active, over, before, calls) ==
    [NoEvent EXCEPT !.kind = "drag", !.active = active, !.over = over,
                    !.before = before, !.calls = calls]
SettleEvent(ids, before, http, surfaced) ==
    [NoEvent EXCEPT !.kind = "settle", !.ids = ids, !.before = before,
                    !.http = http, !.surfaced = surfaced]

InitNote ==
    /\ \E form \in IdForms : items = [k \in NoteKeys |-> [id |-> NoteId(form, k)]]
    /\ serverOrder = {[key |-> k, order |-> k - 1] : k \in NoteKeys}
    /\ noteInflight = <<>>
    /\ lastApplied = <<>>
    /\ lastNote = NoEvent

\* A slip: the test active.id !== over.id left out.
NoteDragEndCallsOnSelf(arr, active, over) ==
    IF over # NoOver
    THEN LET oldIndex == FindIndexById(arr, active)
             newIndex == FindIndexById(arr, over)
         IN  IF oldIndex # -1 /\ newIndex # -1
             THEN <<arrayMove(arr, oldIndex, newIndex)>>
             ELSE <<>>
    ELSE <<>>

\* The lists NoteDndContext.handleDragEnd passes to onReorder for one drag end
\* (the calls it makes, in order).
NoteDragEndCalls(arr, active, over) ==
    IF over # NoOver /\ active # over
    THEN LET oldIndex == FindIndexById(arr, active)
             newIndex == FindIndexById(arr, over)
         IN  IF oldIndex # -1 /\ newIndex # -1
             THEN <<arrayMove(arr, oldIndex, newIndex)>>
             ELSE <<>>
    ELSE <<>>

\* The promise of noteService.updateNoteOrder, given how the HTTP request ended.
UpdateNoteOrderSwallows(http) == "resolved"

updateNoteOrder(http) == IF http = "ok" THEN "resolved" ELSE "rejected"

\* The request body of updateNoteOrder: { noteIds } as the caller passed them.
NoteOrderBody(noteIds) == noteIds

\* The request body of updateFileOrder: { fileIds: fileIds.map(id => String(id)) }
FileOrderBody(fileIds) == [i \in 1..Len(fileIds) |-> String(fileIds[i])]

\* The owner's onReorder: keep the list before the drag, show the new list at
\* once, submit its ids.
OnReorderNotes(newItems) ==
    /\ items' = newItems
    /\ noteInflight' = Append(noteInflight,
                         [ids |-> NoteOrderBody([i \in 1..Len(newItems) |-> newItems[i].id]),
                          snapshot |-> items])

NoteHandleDragEnd(active, over) ==
    /\ Len(noteInflight) < MaxInFlight
    /\ LET calls == NoteDragEndCalls(items, active, over)
       IN  /\ lastNote' = DragEvent(active, over, items, calls)
           /\ IF calls # <<>>
              THEN OnReorderNotes(calls[1])
              ELSE UNCHANGED <<items, noteInflight>>
    /\ UNCHANGED <<serverOrder, lastApplied>>

\* The server's key of a transmitted id (its integer value).
ServerKey(id) ==
    IF id.t = "number" THEN id.v[1]
    ELSE CHOOSE n \in 0..9 : <<DigitChar(n)>> = id.v

\* PUT /api/notes/reorder accepts a list only if it names every note of the
\* container exactly once.
ReorderAccepts(rows, ids) ==
    /\ \A i \in 1..Len(ids) : ids[i].t \in {"number", "string"}
    /\ \A i \in 1..Len(ids) : ids[i].t = "string" =>
            \E n \in 0..9 : <<DigitChar(n)>> = ids[i].v
    /\ {ServerKey(ids[i]) : i \in 1..Len(ids)} = {r.key : r \in rows}
    /\ Len(ids) = Cardinality(rows)

\* ... and rewrites each order column to the id's index in the list.
ReorderRows(rows, ids) ==
    {[key |-> r.key,
      order |-> (CHOOSE i \in 1..Len(ids) : ServerKey(ids[i]) = r.key) - 1] : r \in rows}

\* One reorder call settles: the request reached the server or not (net), the
\* endpoint answered, the promise resolved or rejected, and the owner kept the
\* shown list or put back the list from before the drag and reported the failure.
NoteOrderSettles(i, net) ==
    LET call == noteInflight[i]
        http == IF net = "ok" /\ ReorderAccepts(serverOrder, call.ids) THEN "ok" ELSE "fail"
        promise == updateNoteOrder(http)
    IN  /\ noteInflight' = SpliceOut(noteInflight, i - 1)
        /\ IF http = "ok"
           THEN /\ serverOrder' = ReorderRows(serverOrder, call.ids)
                /\ lastApplied' = call.ids
           ELSE UNCHANGED <<serverOrder, lastApplied>>
        /\ IF promise = "rejected"
           THEN \* catch: put the list back, report the failure
                /\ items' = call.snapshot
                /\ lastNote' = SettleEvent(call.ids, call.snapshot, http, TRUE)
           ELSE /\ UNCHANGED items
                /\ lastNote' = SettleEvent(call.ids, call.snapshot, http, FALSE)

NoteDragEnds ==
    \E active \in SortableIds(items) \cup {ForeignId} :
        \E over \in SortableIds(items) \cup {ForeignId, NoOver} :
            NoteHandleDragEnd(active, over)

NoteCallSettles ==
    \E i \in 1..Len(noteInflight) : \E net \in {"ok", "fail"} : NoteOrderSettles(i, net)

NextNote ==
    \/ NoteDragEnds /\ UNCHANGED <<fileVars, editorVars, serviceVars, registryVars, mouseVars>>
    \/ NoteCallSettles /\ UNCHANGED <<fileVars, editorVars, serviceVars, registryVars, mouseVars>>

-----------------------------------------------------------------------------
(* The DOM as FileDndContext reads it: an element is the record of the     *)
(* attributes the handlers test.                                           *)

NumFolders == 2
NumFiles == 2
MaxStack == 2

\* The folders' ids as the DOM carries them (attribute values are strings).
FolderIds == {String(Num(n)) : n \in 1..NumFolders}

FolderPrefix == <<"f", "o", "l", "d", "e", "r", "-">>
ContentPrefix == <<"c", "o", "n", "t", "e", "n", "t", "-">>

\* el.id: none, 'folder-<f>', 'folder-content-<f>', 'root-files', 'global-drop-area'
NoElId == [k |-> "none", f |-> Null]
\* data-droppable-id: absent, 'folder-<f>' or 'root-area'
NoDroppable == [k |-> "none", f |-> Null]

BlankEl ==
    [id |-> NoElId,
     sidebarClass |-> FALSE,    \* className includes sidebar / MuiBox-root / MuiDrawer-paper / root-files-area
     rootText |-> FALSE,        \* textContent includes one of the root-area hints
     isFolder |-> FALSE,        \* data-is-folder === 'true'
     folderId |-> Null,         \* data-folder-id
     folderContent |-> FALSE,   \* data-folder-content === 'true'
     droppable |-> NoDroppable, \* data-droppable-id
     isRootArea |-> FALSE]      \* data-is-root-area === 'true'

\* 'folder-<f>'.replace('folder-', '') and 'folder-content-<f>'.replace('folder-', '')
IdWithoutFolderPrefix(id) ==
    IF id.k = "folder-" THEN id.f
    ELSE IF id.k = "folder-content-" THEN Str(ContentPrefix \o id.f.v)
    ELSE IF id.k = "none" THEN EmptyStr
    ELSE Str(<<id.k>>)

\* el.id with 'folder-content-' replaced by ''
IdWithoutContentPrefix(id) ==
    IF id.k = "folder-content-" THEN id.f
    ELSE IF id.k = "folder-" THEN Str(FolderPrefix \o id.f.v)
    ELSE IF id.k = "none" THEN EmptyStr
    ELSE Str(<<id.k>>)

\* data-droppable-id with 'folder-' replaced by ''
DroppableWithoutFolderPrefix(d) == IF d.k = "folder" THEN d.f ELSE Str(<<d.k>>)

\* setupFolderElements: what the effect writes on one element of its selector.
setupFolderElements(el) ==
    LET s1 == IF el.id.k \in {"folder-", "folder-content-"}
              THEN [el EXCEPT !.droppable = [k |-> "folder", f |-> IdWithoutFolderPrefix(el.id)],
                              !.folderId = IdWithoutFolderPrefix(el.id),
                              !.isFolder = TRUE]
              ELSE el
        s2 == IF el.id.k = "folder-content-"
              THEN [s1 EXCEPT !.droppable = [k |-> "folder", f |-> el.id.f],
                              !.folderId = el.id.f,
                              !.isFolder = TRUE]
              ELSE s1
        s3 == IF s2.droppable.k # "none" /\ ~Truthy(s2.folderId)
              THEN [s2 EXCEPT !.folderId = DroppableWithoutFolderPrefix(s2.droppable),
                              !.isFolder = TRUE]
              ELSE s2
    IN  IF Truthy(s3.folderId) \/ s3.id.k \in {"folder-", "folder-content-"}
        THEN [s3 EXCEPT !.isFolder = TRUE]
        ELSE s3

\* The elements the sidebar renders, as the selectors of the handlers name them.
FolderHeaderEl(f) == setupFolderElements([BlankEl EXCEPT !.id = [k |-> "folder-", f |-> f]])
FolderContentEl(f) == setupFolderElements([BlankEl EXCEPT !.id = [k |-> "folder-content-", f |-> f]])
ContentMarkerEl(f) == [BlankEl EXCEPT !.folderContent = TRUE, !.folderId = f]
FolderMarkerEl(f) == [BlankEl EXCEPT !.isFolder = TRUE, !.folderId = f]
RootFilesEl == [BlankEl EXCEPT !.id = [k |-> "root-files", f |-> Null]]
RootAreaEl == [BlankEl EXCEPT !.isRootArea = TRUE]
RootDropEl == [BlankEl EXCEPT !.droppable = [k |-> "root-area", f |-> Null]]
RootHintEl == [BlankEl EXCEPT !.rootText = TRUE]
SidebarEl == [BlankEl EXCEPT !.sidebarClass = TRUE]

Elements ==
    {FolderHeaderEl(f) : f \in FolderIds} \cup {FolderContentEl(f) : f \in FolderIds}
    \cup {ContentMarkerEl(f) : f \in FolderIds} \cup {FolderMarkerEl(f) : f \in FolderIds}
    \cup {RootFilesEl, RootAreaEl, RootDropEl, RootHintEl, SidebarEl}

\* document.elementsFromPoint: the elements under the pointer, topmost first.
StacksUpTo(n) ==
    UNION {{st \in [1..m -> Elements] : \A i, j \in 1..m : i # j => st[i] # st[j]} : m \in 0..n}

\* Array.prototype.some / find over the stack, the predicate given as the set of
\* the stack's elements that satisfy it (find gives the first match).
Range(stack) == {stack[i] : i \in 1..Len(stack)}
Some(stack, matching) == \E i \in 1..Len(stack) : stack[i] \in matching
NoElement == [BlankEl EXCEPT !.id = [k |-> "absent", f |-> Null]]
Find(stack, matching) ==
    IF Some(stack, matching)
    THEN stack[CHOOSE i \in 1..Len(stack) :
                  stack[i] \in matching /\ \A j \in 1..(i - 1) : stack[j] \notin matching]
    ELSE NoElement

-----------------------------------------------------------------------------
(* FileDndContext (dnd-utils.jsx) with the owner of its props.             *)

\* The forms in which a file's folder_id arrives: null (getAllFiles), undefined
\* (processApiResponse), '' and 0 (the root forms line 930 names), or a folder's id.
FolderIdForms == {Null, Undefined, EmptyStr, Num(0)} \cup FolderIds

FileKeys == 1..NumFiles

\* The id of file k as the client holds it (a number or its string).
FileId(k) == IF k % 2 = 1 THEN Num(k) ELSE String(Num(k))

NoDrag == Null

\* The record of the last event of the component: nothing yet, a drag end (the
\* event it was given, hoverFolderId and the file's folder_id when it ran, the
\* onMoveToFolder and onReorder calls it made) or the rollback of a rejected move.
NoFileEvent ==
    [kind |-> "none", active |-> Null, over |-> Null, stack |-> <<>>, throws |-> FALSE,
     hover |-> Null, from |-> Null, found |-> FALSE, calls |-> <<>>, reorders |-> <<>>,
     back |-> FALSE, expands |-> <<>>, endEvents |-> 0]

\* A slip: a file that is not found is taken to be the first one.
FindFileOrFirst(fs, id) == IF FindIndexById(fs, id) = -1 THEN 0 ELSE FindIndexById(fs, id)

\* files.find(file => String(file.id) === String(id))
FindFile(fs, id) == FindIndexById(fs, id)

(* ---- what handleDragEnd derives from the elements under the pointer ---- *)

inSidebar(stack) ==
    Some(stack, {el \in Range(stack) :
                    el.sidebarClass \/ el.id.k \in {"root-files", "global-drop-area"}})

emptyAreaAtBottom(stack) ==
    Some(stack, {el \in Range(stack) :
                    el.rootText \/ el.isRootArea \/ el.droppable.k = "root-area"})

IsFolderHeaderElement(el) ==
    \/ el.id.k = "folder-"
    \/ (el.isFolder /\ ~el.folderContent)
    \/ el.droppable.k = "folder"

IsFolderContentElement(el) == el.id.k = "folder-content-" \/ el.folderContent

IsDroppableElement(el) == el.droppable.k \in {"folder", "root-area"}

IsRootAreaElement(el) == el.id.k = "root-files" \/ el.isRootArea

folderHeaderElement(stack) == Find(stack, {el \in Range(stack) : IsFolderHeaderElement(el)})
folderContentElement(stack) == Find(stack, {el \in Range(stack) : IsFolderContentElement(el)})
droppableElement(stack) == Find(stack, {el \in Range(stack) : IsDroppableElement(el)})
rootAreaElement(stack) == Find(stack, {el \in Range(stack) : IsRootAreaElement(el)})

\* const originalFolderId = String(draggedFile.folder_id || '')
originalFolderId(file) == String(OrElse(file.folder_id, EmptyStr))

\* isSourceRoot of line 930
isSourceRoot(file) ==
    file.folder_id \in {Null, Undefined, Num(0), String(Num(0)), EmptyStr}

\* A slip: the hovered folder never recognised as the file's own.
HoverNeverOwnFolder(hover, file) == FALSE

\* String(hoverFolderId) === originalFolderId
HoverIsOwnFolder(hover, file) == String(hover) = originalFolderId(file)

\* A slip: the root-area test of the sidebar branch skipped.
RootAreaFirstSkipped(stack) == FALSE

\* if (inSidebar && rootAreaElement): the root area of the sidebar is handled
\* before any folder element is looked at.
RootAreaFirst(stack) == inSidebar(stack) /\ rootAreaElement(stack) # NoElement

\* A slip: the sidebar branch testing the folder_id the other way round.
SidebarRootMovesInverted(file) == file.folder_id = Null

\* if (draggedFile.folder_id !== null) onMoveToFolder(String(active.id), null)
SidebarRootMoves(file) == file.folder_id # Null

\* droppableId === 'root-area' ? null : droppableId.replace('folder-', '')
DroppableTarget(D) ==
    IF D.droppable.k = "root-area" THEN Null ELSE DroppableWithoutFolderPrefix(D.droppable)

\* getAttribute('data-folder-id') || id.replace('folder-content-', '')
ContentFolder(C) == OrElse(C.folderId, IdWithoutContentPrefix(C.id))

\* getAttribute('data-folder-id') || getAttribute('data-droppable-id')?.replace('folder-', '')
\*   || id.replace('folder-', '')
HeaderFolder(H) ==
    OrElse(H.folderId,
           OrElse(IF H.droppable.k = "none" THEN Undefined
                  ELSE DroppableWithoutFolderPrefix(H.droppable),
                  IdWithoutFolderPrefix(H.id)))

\* targetFolderId and isInSameFolder after the hit-testing of lines 825-921
\* (targetFolderId starts as null, so it is never left undefined).
HitTestTarget(file, stack) ==
    LET orig == originalFolderId(file)
        D == droppableElement(stack)
        C == folderContentElement(stack)
        H == folderHeaderElement(stack)
        InFolder(f) == [target |-> f, same |-> (String(f) = orig)]
    IN  IF emptyAreaAtBottom(stack) /\ inSidebar(stack)
        THEN [target |-> Null, same |-> FALSE]
        ELSE LET t1 ==
                   IF D # NoElement
                   THEN IF D.droppable.k = "root-area"
                        THEN [target |-> Null, same |-> FALSE]
                        ELSE InFolder(DroppableTarget(D))
                   ELSE IF C # NoElement THEN InFolder(ContentFolder(C))
                   ELSE IF H # NoElement THEN InFolder(HeaderFolder(H))
                   ELSE [target |-> Null, same |-> FALSE]
             IN  IF t1.same /\ inSidebar(stack) /\ ~Some(stack, {el \in Range(stack) : el.isFolder})
                 THEN [target |-> Null, same |-> FALSE]
                 ELSE t1

\* A slip: the file's id passed as the list holds it, not as a string.
MoveCallsForHeldId(activeId, file, target) ==
    IF target = Undefined THEN <<>>
    ELSE <<[fileId |-> file.id, folderId |-> target]>>

\* The onMoveToFolder calls of lines 926-961, given the target.
MoveCallsFor(activeId, file, target) ==
    IF target = Undefined THEN <<>>
    ELSE LET isTargetRoot == target = Null
             isSameLocation == IF isTargetRoot THEN isSourceRoot(file)
                               ELSE String(target) = String(file.folder_id)
         IN  IF isSameLocation THEN <<>>
             ELSE <<[fileId |-> String(activeId), folderId |-> target]>>

\* The onMoveToFolder calls one handleDragEnd makes, in order.
FileDragEndCalls(fs, hover, ev) ==
    IF ev.over = NoOver THEN <<>>
    ELSE IF FindFile(fs, ev.active) = -1 THEN <<>>
    ELSE IF ev.throws THEN <<>>
    ELSE
      LET file == At(fs, FindFile(fs, ev.active))
          stack == ev.stack
      IN  IF Truthy(hover)
          THEN IF HoverIsOwnFolder(hover, file)
               THEN IF /\ inSidebar(stack)
                       /\ folderContentElement(stack) = NoElement
                       /\ folderHeaderElement(stack) = NoElement
                    THEN <<[fileId |-> String(ev.active), folderId |-> Null]>>
                    ELSE <<>>
               ELSE <<[fileId |-> String(ev.active), folderId |-> hover]>>
          ELSE IF RootAreaFirst(stack)
          THEN IF SidebarRootMoves(file)
               THEN <<[fileId |-> String(ev.active), folderId |-> Null]>>
               ELSE <<>>
          ELSE MoveCallsFor(ev.active, file, HitTestTarget(file, stack).target)

\* setTimeout(() => document.dispatchEvent(new CustomEvent('expandFolder', ...)), 100)
\* and setTimeout(() => cleanupDragState(), 100): the delays in milliseconds.
ExpandDelay == 100
CleanupDelay == 100

\* A slip: the folder-expansion event scheduled for a move to root as well.
ExpandsForAnyTarget(target) == <<[folderId |-> target, delay |-> ExpandDelay]>>

\* The expandFolder events of lines 940-957, given the target of the move made.
ExpandsForTarget(target) ==
    IF target = Null THEN <<>> ELSE <<[folderId |-> target, delay |-> ExpandDelay]>>

\* The expandFolder events one handleDragEnd schedules, in order.
FileDragEndExpands(fs, hover, ev) ==
    IF ev.over = NoOver THEN <<>>
    ELSE IF FindFile(fs, ev.active) = -1 THEN <<>>
    ELSE IF ev.throws THEN <<>>
    ELSE
      LET file == At(fs, FindFile(fs, ev.active))
          stack == ev.stack
      IN  IF Truthy(hover)
          THEN IF HoverIsOwnFolder(hover, file)
               THEN <<>>
               ELSE <<[folderId |-> hover, delay |-> ExpandDelay]>>
          ELSE IF RootAreaFirst(stack)
          THEN <<>>
          ELSE IF MoveCallsFor(ev.active, file, HitTestTarget(file, stack).target) = <<>>
          THEN <<>>
          ELSE ExpandsForTarget(HitTestTarget(file, stack).target)

\* The dnd-drag-end events one handleDragEnd dispatches: none on the returns of
\* lines 652-665, one on every other path.
FileDragEndEvents(fs, ev) ==
    IF ev.over = NoOver THEN 0
    ELSE IF FindFile(fs, ev.active) = -1 THEN 0
    ELSE 1

\* handleDragEnd reaches its last lines (966-982), where it defers a second
\* cleanup: the returns of the other paths come before them.
DefersCleanup(fs, hover, ev) ==
    /\ ev.over # NoOver
    /\ FindFile(fs, ev.active) # -1
    /\ ev.throws \/ (~Truthy(hover) /\ ~RootAreaFirst(ev.stack))

\* The onReorder calls one handleDragEnd makes: the handler never calls the prop.
FileDragEndReorders(fs, hover, ev) == <<>>

\* The owner's onMoveToFolder: the file's container field is set at once.
OnMoveToFolder(fs, call) ==
    [k \in 1..Len(fs) |->
        IF String(fs[k].id) = call.fileId
        THEN [fs[k] EXCEPT !.folder_id = call.folderId]
        ELSE fs[k]]

RECURSIVE ApplyMoves(_, _)
ApplyMoves(fs, calls) ==
    IF calls = <<>> THEN fs ELSE ApplyMoves(OnMoveToFolder(fs, Head(calls)), Tail(calls))

\* The deferred cleanups that may be pending at once.
MaxDeferred == 1

\* setTimeout(..., 10000) and `dragDuration > 10000`: the delay in milliseconds.
WatchdogDelay == 10000
\* The clock's resolution: the ticks that make one watchdog delay.
WatchdogTicks == 2
MaxClock == 6
NoWatchdog == [set |-> FALSE, due |-> 0, start |-> Null]
NoStyle == [header |-> FALSE, content |-> FALSE]

\* clearAllFolderHighlights: every folder element loses its highlight styling.
clearAllFolderHighlights == [f \in FolderIds |-> NoStyle]

\* A slip: the content region styled whether or not the folder is expanded.
HighlightStylesAlways(folderId, isHeader, exp) == [header |-> TRUE, content |-> TRUE]

\* The styling highlightFolderElement gives the folder: the header alone if only
\* the header is asked for or the content region is absent or not displayed,
\* header and content region otherwise.
HighlightStyles(folderId, isHeader, exp) ==
    LET isFolderExpanded == folderId \in exp
    IN  IF isHeader \/ ~isFolderExpanded
        THEN [header |-> TRUE, content |-> FALSE]
        ELSE [header |-> TRUE, content |-> TRUE]

\* A slip: the effect without its cleanup function, so that a timer set for an
\* earlier drag is left running.
WatchdogEffectKept(dragging, startTime) ==
    IF ~dragging \/ ~Truthy(startTime) THEN watchdog
    ELSE [set |-> TRUE, due |-> clock + WatchdogTicks, start |-> startTime]

\* The watchdog effect, run after a render with these values of isDragging and
\* dragStartTime: the timer of the render before is cleared and, while a drag
\* is recorded, a timer of 10 s is set.
WatchdogEffect(dragging, startTime) ==
    IF ~dragging \/ ~Truthy(startTime) THEN NoWatchdog
    ELSE [set |-> TRUE, due |-> clock + WatchdogTicks, start |-> startTime]

\* a ?? b
NullishOr(a, b) == IF a \in {Null, Undefined} THEN b ELSE a

\* A slip: the coordinate test passing everything.
isFiniteAlways(x) == TRUE

\* isFinite(x) for a number, NaN or an infinity
isFinite(x) == x.t = "number"

\* event.clientX and event.clientY of a drag-move event: both absent (the drag
\* library does not set them), both numbers, or one of them NaN or an infinity.
Coordinates ==
    {[x |-> Undefined, y |-> Undefined], [x |-> Num(0), y |-> Num(0)],
     [x |-> NaN, y |-> Num(0)], [x |-> Num(0), y |-> Infinity]}
NoMove == [x |-> Null, y |-> Null]

\* A slip: a cleanup that leaves the hovered folder and its highlight.
cleanupKeepsHover ==
    /\ isDragging' = FALSE
    /\ dragStartTime' = Null
    /\ activeFileId' = Null
    /\ UNCHANGED <<hoverFolderId, highlight>>
    /\ watchdog' = NoWatchdog

\* cleanupDragState: the React state it resets and the highlights it clears; the
\* watchdog effect then clears its timer.
cleanupDragState ==
    /\ isDragging' = FALSE
    /\ dragStartTime' = Null
    /\ activeFileId' = Null
    /\ hoverFolderId' = Null
    /\ highlight' = clearAllFolderHighlights
    /\ watchdog' = WatchdogEffect(FALSE, Null)

\* A slip: the start time left unset by handleDragStart.
DragStartTimeUnset(t) == Null

\* setDragStartTime(Date.now())
DragStartTime(t) == Num(t)

handleDragStart(k) ==
    /\ dndActive = NoDrag
    /\ dndActive' = String(FileId(k))
    /\ dragStartTime' = DragStartTime(clock)
    /\ isDragging' = TRUE
    /\ activeFileId' = String(FileId(k))
    /\ watchdog' = WatchdogEffect(TRUE, DragStartTime(clock))
    /\ lastMove' = NoMove
    /\ UNCHANGED <<files, hoverFolderId, lastFile, clock, expanded, highlight, deferred>>

\* A slip: the styles of the folders highlighted before are left in place.
StylesAfterHighlightKept(styles, folderId, isHeader, exp) ==
    [f \in FolderIds |->
        IF f = folderId THEN HighlightStyles(folderId, isHeader, exp) ELSE styles[f]]

\* The styles highlightFolderElement leaves: every highlight is cleared first,
\* then the folder is styled.
StylesAfterHighlight(styles, folderId, isHeader, exp) ==
    [f \in FolderIds |->
        IF f = folderId THEN HighlightStyles(folderId, isHeader, exp)
        ELSE clearAllFolderHighlights[f]]

\* highlightFolderElement(folderId, isHeader): every highlight is cleared, the
\* folder is styled and recorded as the hovered folder.
highlightFolderElement(folderId, isHeader) ==
    IF Truthy(folderId)
    THEN /\ hoverFolderId' = folderId
         /\ highlight' = StylesAfterHighlight(highlight, folderId, isHeader, expanded)
    ELSE UNCHANGED <<hoverFolderId, highlight>>

IsFolderElement(el) == el.isFolder \/ Truthy(el.folderId)

handleDragOver(coords, stack) ==
    /\ dndActive # NoDrag
    /\ lastMove' = coords
    /\ IF ~isFinite(NullishOr(coords.x, Num(0))) \/ ~isFinite(NullishOr(coords.y, Num(0)))
       THEN UNCHANGED <<hoverFolderId, highlight>>
       ELSE LET folderElement == Find(stack, {el \in Range(stack) : IsFolderElement(el)})
            IN  IF folderElement # NoElement
                THEN IF Truthy(folderElement.folderId) /\ folderElement.folderId # hoverFolderId
                     THEN highlightFolderElement(folderElement.folderId, FALSE)
                     ELSE UNCHANGED <<hoverFolderId, highlight>>
                ELSE IF Truthy(hoverFolderId)
                     THEN /\ highlight' = clearAllFolderHighlights
                          /\ hoverFolderId' = Null
                     ELSE UNCHANGED <<hoverFolderId, highlight>>
    /\ UNCHANGED <<files, dndActive, activeFileId, isDragging, lastFile,
                   dragStartTime, watchdog, clock, expanded, deferred>>

\* The listeners setupFolderElements puts on every folder element, for the
\* browser's own drag events (a link, a text selection or a file of the desktop
\* dragged over the sidebar): el._dragover highlights the folder, el._dragleave
\* does nothing, el._drop clears.  No drag of the drag library is needed for them.
NativeDragOver(f) ==
    /\ dndActive = NoDrag
    /\ highlightFolderElement(f, FALSE)
    /\ UNCHANGED <<files, dndActive, activeFileId, isDragging, lastFile,
                   dragStartTime, watchdog, clock, expanded, lastMove, deferred>>

NativeDrop ==
    /\ dndActive = NoDrag
    /\ highlight' = clearAllFolderHighlights
    /\ hoverFolderId' = Null
    /\ UNCHANGED <<files, dndActive, activeFileId, isDragging, lastFile,
                   dragStartTime, watchdog, clock, expanded, lastMove, deferred>>

\* The container a folder_id names: the root forms of line 930 are one container.
Container(folderId) ==
    IF folderId \in {Null, Undefined, Num(0), String(Num(0)), EmptyStr} THEN Null
    ELSE String(folderId)

\* This drag end moves the file back to where the drag end before it took it from.
MovesBack(last, activeId, calls) ==
    /\ last.kind = "end"
    /\ last.calls # <<>>
    /\ calls # <<>>
    /\ last.calls[1].fileId = String(activeId)
    /\ Container(last.from) # Container(last.calls[1].folderId)
    /\ Container(calls[1].folderId) = Container(last.from)

handleDragEnd(ev) ==
    /\ dndActive # NoDrag
    /\ ev.active = dndActive
    /\ deferred < MaxDeferred
    /\ deferred' = IF DefersCleanup(files, hoverFolderId, ev) THEN deferred + 1 ELSE deferred
    /\ LET calls == FileDragEndCalls(files, hoverFolderId, ev)
           reorders == FileDragEndReorders(files, hoverFolderId, ev)
           i == FindFile(files, ev.active)
           from == IF i = -1 THEN Null ELSE At(files, i).folder_id
       IN  /\ files' = ApplyMoves(files, calls)
           /\ lastFile' = [kind |-> "end", active |-> ev.active, over |-> ev.over,
                           stack |-> ev.stack, throws |-> ev.throws,
                           hover |-> hoverFolderId, from |-> from, found |-> (i # -1),
                           calls |-> calls, reorders |-> reorders,
                           back |-> MovesBack(lastFile, ev.active, calls),
                           expands |-> FileDragEndExpands(files, hoverFolderId, ev),
                           endEvents |-> FileDragEndEvents(files, ev)]
    /\ cleanupDragState
    /\ dndActive' = NoDrag
    /\ lastMove' = NoMove
    /\ UNCHANGED <<clock, expanded>>

\* The move call of the last drag end is rejected: the owner puts the file back.
MoveRejected ==
    /\ lastFile.kind = "end"
    /\ lastFile.calls # <<>>
    /\ files' = OnMoveToFolder(files, [fileId |-> lastFile.calls[1].fileId,
                                       folderId |-> lastFile.from])
    /\ lastFile' = [NoFileEvent EXCEPT !.kind = "rollback"]
    /\ UNCHANGED <<dndActive, activeFileId, hoverFolderId, isDragging,
                   dragStartTime, watchdog, clock, expanded, highlight, lastMove, deferred>>

\* The watchdog's timer runs: cleanup if the drag has lasted more than 10 s by
\* Date.now().  The timer is not set again.
WatchdogRuns ==
    /\ watchdog.set
    /\ clock >= watchdog.due
    /\ IF clock - watchdog.start.v[1] > WatchdogTicks
       THEN /\ cleanupDragState
            /\ lastFile' = [NoFileEvent EXCEPT !.kind = "watchdog"]
       ELSE /\ watchdog' = NoWatchdog
            /\ UNCHANGED <<isDragging, dragStartTime, activeFileId, hoverFolderId,
                           highlight, lastFile>>
    /\ UNCHANGED <<files, dndActive, clock, expanded, lastMove, deferred>>

\* The deferred cleanup of a drag end runs, 100 ms after it.
DeferredCleanupRuns ==
    /\ deferred > 0
    /\ deferred' = deferred - 1
    /\ cleanupDragState
    /\ UNCHANGED <<files, dndActive, lastFile, clock, expanded, lastMove>>

\* Time passes (a tick is much longer than 100 ms: the deferred cleanups have
\* run).  A timer may run late, so a due watchdog does not hold it back.
ClockTick ==
    /\ clock < MaxClock
    /\ deferred = 0
    /\ clock' = clock + 1
    /\ UNCHANGED <<files, dndActive, activeFileId, hoverFolderId, isDragging, lastFile,
                   dragStartTime, watchdog, expanded, highlight, lastMove, deferred>>

\* The user opens or closes a folder of the sidebar (between drags).
ToggleFolder(f) ==
    /\ dndActive = NoDrag
    /\ expanded' = IF f \in expanded THEN expanded \ {f} ELSE expanded \cup {f}
    /\ UNCHANGED <<files, dndActive, activeFileId, hoverFolderId, isDragging, lastFile,
                   dragStartTime, watchdog, clock, highlight, lastMove, deferred>>

\* A file of the list other than the dragged one (the next one, cyclically).
OtherFile(id) ==
    LET i == FindFile(files, id)
    IN  IF i = -1 THEN id ELSE String(At(files, (i + 1) % Len(files)).id)

\* The drag-end events the drag library can deliver for the stacks of a set.
DragEndEvents(stacks) ==
    {[active |-> dndActive, over |-> o, stack |-> st, throws |-> FALSE] :
        o \in {NoOver, OtherFile(dndActive)}, st \in stacks}
    \cup {[active |-> dndActive, over |-> OtherFile(dndActive), stack |-> <<>>, throws |-> TRUE]}

FileDragStarts == \E k \in FileKeys : handleDragStart(k)

FileDragOver ==
    \E coords \in Coordinates : \E st \in StacksUpTo(1) : handleDragOver(coords, st)

\* The drops of the round trips: on a folder's header, on the root list, outside.
TripStacks == {<<FolderHeaderEl(f)>> : f \in FolderIds} \cup {<<RootFilesEl>>, <<>>}

\* A drag of a sortable id that is not (or no longer) among the files.
FileDragStartsUnknown == handleDragStart(NumFiles + 1)

FileDragEnds == \E ev \in DragEndEvents(StacksUpTo(MaxStack)) : handleDragEnd(ev)

\* The gestures of the round trips of the first file: drag start, drag-over events
\* over those stacks, then a drag end on one of them or a drag end that the
\* library reports without `over`.
FileTripStarts == handleDragStart(1)

FileTripOver == \E st \in TripStacks : handleDragOver([x |-> Undefined, y |-> Undefined], st)

FileTripEnds ==
    \E ev \in {[active |-> dndActive, over |-> dndActive, stack |-> st, throws |-> FALSE] :
                    st \in TripStacks}
               \cup {[active |-> dndActive, over |-> NoOver, stack |-> <<>>, throws |-> FALSE],
                     [active |-> dndActive, over |-> dndActive, stack |-> <<>>, throws |-> TRUE]} :
        handleDragEnd(ev)

-----------------------------------------------------------------------------
(* TipTapEditor (components/TipTapEditor.jsx): the debounced autosave.     *)

\* debounce(..., 500): the delay in milliseconds.
DebounceDelay == 500
\* The clock's resolution: the ticks that make one delay.
DelayTicks == 5
MaxTicks == 8
MaxOnUpdates == 1
MaxSaving == 1

\* Milliseconds of a number of ticks.
Ms(ticks) == (ticks * DebounceDelay) \div DelayTicks

EmptyDoc == "<p></p>"
\* What editor.getHTML() can return.
Documents == {EmptyDoc, "<p>a</p>", "<p>ab</p>"}
\* note.content as stored: '' for a new note, or a document.
StoredContents == {""} \cup Documents
NoteFormats == {"text"}
\* Formats getEditorStyles tells apart (three of them).
EditorFormats == {"text", "quote", "h1"}

NoTimer == [set |-> FALSE, due |-> 0, noteId |-> Null, content |-> "", format |-> "",
            onUpdate |-> 0]
NoBurst == [open |-> FALSE, last |-> 0, content |-> "", saves |-> 0]
NoEdit == [kind |-> "none", at |-> 0, noteId |-> Null, content |-> "", format |-> "",
           onUpdate |-> 0, sinceLast |-> 0, latest |-> "", nth |-> 0]

\* useEditor({ content: note?.content || '' }): the document of the initial content.
InitialHTML(content) == IF content = "" THEN EmptyDoc ELSE content

\* editor.commands.setContent(html, false): the document the editor then holds;
\* no 'update' event is emitted.
setContent(html) == IF html = "" THEN EmptyDoc ELSE html

\* A slip: the sync effect leaving the editor alone.
SyncKeepsEditor(html, content) == html

\* The content sync effect, run because note.content changed: the editor is set
\* to the stored content unless it already shows it.  (No stored content of the
\* model looks like markdown, so htmlContent is note.content.)
SyncedHTML(html, content) == IF html # content THEN setContent(content) ELSE html

\* A slip: the content sync effect running on every render.
ContentSyncRunsAlways(prev, next) == TRUE

\* The content sync effect runs on a render when one of its dependencies
\* [editor, note?.content] changed.
ContentSyncRuns(prev, next) == prev.content # next.content

\* handleUpdate's early returns: the initial empty paragraph, or unchanged content.
HandleUpdateSkips(htmlContent, n) ==
    \/ htmlContent = EmptyDoc /\ n.content \in {"", EmptyDoc}
    \/ htmlContent = n.content

\* debounce(fn, delay) of utils/editorUtils, called: the pending timer of that
\* debounced function is replaced by one that runs fn(args) a delay from now.
debounce(timer, noteId, contentData, gen) ==
    [set |-> TRUE, due |-> now + DelayTicks, noteId |-> noteId,
     content |-> contentData.content, format |-> contentData.format, onUpdate |-> gen]

\* The burst after an editor update at this time: the same burst if the update
\* before it is less than a delay old, a new burst otherwise.
BurstAfterUpdate(b, html) ==
    IF b.open /\ now - b.last < DelayTicks
    THEN [b EXCEPT !.last = now, !.content = html]
    ELSE [open |-> TRUE, last |-> now, content |-> html, saves |-> 0]

\* The editor's 'update' event with the document it now holds: handleUpdate.
\* debouncedUpdate is the debounced function made for the current onUpdate.
handleUpdate(htmlContent) ==
    /\ htmlContent # editorHTML
    /\ editorHTML' = htmlContent
    /\ burst' = BurstAfterUpdate(burst, htmlContent)
    /\ timers' =
         IF HandleUpdateSkips(htmlContent, closureNote) THEN timers
         ELSE [timers EXCEPT ![onUpdateGen] =
                  debounce(@, closureNote.id,
                           [content |-> htmlContent, format |-> closureNote.format],
                           onUpdateGen)]
    /\ saving' = [i \in 1..Len(saving) |-> [saving[i] EXCEPT !.edited = TRUE]]
    /\ lastEdit' = [NoEdit EXCEPT !.kind = "update", !.at = now, !.content = htmlContent]
    /\ UNCHANGED <<now, note, closureNote, onUpdateGen>>

\* A render of the component.  With the same onUpdate, useCallback keeps the
\* debounced function and the effect keeps its listener; with a new onUpdate a
\* new debounced function is made and the listener is replaced.  The timer of
\* the old debounced function is left pending.
Render(newOnUpdate) ==
    /\ newOnUpdate => onUpdateGen < MaxOnUpdates
    /\ onUpdateGen' = IF newOnUpdate THEN onUpdateGen + 1 ELSE onUpdateGen
    /\ closureNote' = IF newOnUpdate THEN note ELSE closureNote
    /\ lastEdit' = [NoEdit EXCEPT !.kind = "render", !.at = now, !.onUpdate = onUpdateGen']
    /\ UNCHANGED <<now, note, saving, editorHTML, timers, burst>>

\* The owner's onUpdate: the save is sent with updateNote (PUT notes/:id).
OnUpdate(noteId, contentData) ==
    [noteId |-> noteId, content |-> contentData.content, format |-> contentData.format,
     edited |-> FALSE]

\* The timer of a debounced function runs: if (onUpdate) onUpdate(noteId, contentData).
TimerRuns(g) ==
    /\ timers[g].set
    /\ timers[g].due <= now
    /\ Len(saving) < MaxSaving
    /\ saving' = Append(saving, OnUpdate(timers[g].noteId,
                                         [content |-> timers[g].content,
                                          format |-> timers[g].format]))
    /\ timers' = [timers EXCEPT ![g] = NoTimer]
    /\ burst' = [burst EXCEPT !.saves = @ + 1]
    /\ lastEdit' = [kind |-> "save", at |-> now, noteId |-> timers[g].noteId,
                    content |-> timers[g].content, format |-> timers[g].format,
                    onUpdate |-> timers[g].onUpdate,
                    sinceLast |-> now - burst.last, latest |-> burst.content,
                    nth |-> burst.saves + 1]
    /\ UNCHANGED <<now, note, closureNote, editorHTML, onUpdateGen>>

\* updateNote resolves: the owner replaces its copy of the note by the saved one,
\* the component renders with the new `note` and the content sync effect runs if
\* note.content changed.  The effect of handleUpdate does not run again (its
\* dependencies are the editor, note.id and debouncedUpdate).
SaveArrives(i) ==
    /\ i \in 1..Len(saving)
    /\ saving' = SpliceOut(saving, i - 1)
    /\ note' = [note EXCEPT !.content = saving[i].content, !.format = saving[i].format]
    /\ editorHTML' = IF ContentSyncRuns(note, note')
                     THEN SyncedHTML(editorHTML, note'.content)
                     ELSE editorHTML
    /\ lastEdit' = [NoEdit EXCEPT !.kind = "arrive", !.at = now,
                                  !.content = saving[i].content, !.format = saving[i].format]
    /\ UNCHANGED <<now, closureNote, onUpdateGen, timers, burst>>

\* The owner's format-change action gives the note another format and the
\* component renders with the new `note`: the content sync effect runs only if
\* note.content changed, the listener and the debounced function are kept.
FormatChanges(f) ==
    /\ note.id # Null
    /\ f # note.format
    /\ note' = [note EXCEPT !.format = f]
    /\ editorHTML' = IF ContentSyncRuns(note, note')
                     THEN SyncedHTML(editorHTML, note'.content)
                     ELSE editorHTML
    /\ lastEdit' = [NoEdit EXCEPT !.kind = "format", !.at = now, !.format = f]
    /\ UNCHANGED <<now, closureNote, saving, onUpdateGen, timers, burst>>

\* Time passes once every timer that is due has run.
Tick ==
    /\ now < MaxTicks
    /\ \A g \in DOMAIN timers : ~(timers[g].set /\ timers[g].due <= now)
    /\ now' = now + 1
    /\ UNCHANGED <<note, closureNote, saving, editorHTML, onUpdateGen, timers, burst, lastEdit>>

ParkEditor ==
    /\ now = 0
    /\ note = [id |-> Null, content |-> "", format |-> ""]
    /\ closureNote = note
    /\ saving = <<>>
    /\ editorHTML = EmptyDoc
    /\ onUpdateGen = 0
    /\ timers = <<>>
    /\ burst = NoBurst
    /\ lastEdit = NoEdit

\* The editor mounted on a note of any stored content.
InitEditor ==
    /\ now = 0
    /\ \E c \in StoredContents : \E f \in NoteFormats :
            /\ note = [id |-> Num(1), content |-> c, format |-> f]
            /\ editorHTML = InitialHTML(c)
    /\ closureNote = note
    /\ saving = <<>>
    /\ onUpdateGen = 0
    /\ timers = [g \in 0..MaxOnUpdates |-> NoTimer]
    /\ burst = NoBurst
    /\ lastEdit = NoEdit

EditorUpdates == \E html \in Documents : handleUpdate(html)
EditorRenders == \E newOnUpdate \in BOOLEAN : Render(newOnUpdate)
EditorTimerRuns == \E g \in DOMAIN timers : TimerRuns(g)
EditorSaveArrives == \E i \in 1..Len(saving) : SaveArrives(i)
EditorFormatChanges == \E f \in EditorFormats : FormatChanges(f)

NextEditor ==
    \/ EditorUpdates /\ UNCHANGED <<noteVars, fileVars, serviceVars, registryVars, mouseVars>>
    \/ EditorRenders /\ UNCHANGED <<noteVars, fileVars, serviceVars, registryVars, mouseVars>>
    \/ EditorTimerRuns /\ UNCHANGED <<noteVars, fileVars, serviceVars, registryVars, mouseVars>>
    \/ EditorSaveArrives /\ UNCHANGED <<noteVars, fileVars, serviceVars, registryVars, mouseVars>>
    \/ Tick /\ UNCHANGED <<noteVars, fileVars, serviceVars, registryVars, mouseVars>>

\* The editor mounted on a note of any stored content and format.
InitFormat ==
    /\ now = 0
    /\ \E c \in StoredContents : \E f \in EditorFormats :
            /\ note = [id |-> Num(1), content |-> c, format |-> f]
            /\ editorHTML = InitialHTML(c)
    /\ closureNote = note
    /\ saving = <<>>
    /\ onUpdateGen = 0
    /\ timers = [g \in 0..MaxOnUpdates |-> NoTimer]
    /\ burst = NoBurst
    /\ lastEdit = NoEdit

\* The editor up to and including a change of the note's format.
BeforeFormatChange == lastEdit.kind # "format"

NextFormat ==
    \/ BeforeFormatChange /\ EditorUpdates /\ UNCHANGED <<noteVars, fileVars, serviceVars, registryVars, mouseVars>>
    \/ BeforeFormatChange /\ EditorTimerRuns /\ UNCHANGED <<noteVars, fileVars, serviceVars, registryVars, mouseVars>>
    \/ BeforeFormatChange /\ EditorSaveArrives /\ UNCHANGED <<noteVars, fileVars, serviceVars, registryVars, mouseVars>>
    \/ BeforeFormatChange /\ Tick /\ UNCHANGED <<noteVars, fileVars, serviceVars, registryVars, mouseVars>>
    \/ BeforeFormatChange /\ EditorFormatChanges /\ UNCHANGED <<noteVars, fileVars, serviceVars, registryVars, mouseVars>>

\* The editor with format changes among the edits and their saves.
NextFormatEdit ==
    \/ EditorUpdates /\ UNCHANGED <<noteVars, fileVars, serviceVars, registryVars, mouseVars>>
    \/ EditorTimerRuns /\ UNCHANGED <<noteVars, fileVars, serviceVars, registryVars, mouseVars>>
    \/ EditorSaveArrives /\ UNCHANGED <<noteVars, fileVars, serviceVars, registryVars, mouseVars>>
    \/ Tick /\ UNCHANGED <<noteVars, fileVars, serviceVars, registryVars, mouseVars>>
    \/ EditorFormatChanges /\ UNCHANGED <<noteVars, fileVars, serviceVars, registryVars, mouseVars>>

-----------------------------------------------------------------------------
(* noteService (services/noteService.js): each method sends one HTTP       *)
(* request and settles when the request ends.                              *)

MaxRequests == 2

ServiceMethods ==
    {"getAllFiles", "createFile", "updateFile", "deleteFile", "updateFileOrder",
     "getNotes", "createNote", "updateNote", "deleteNote", "updateNoteOrder",
     "getFolders", "createFolder", "updateFolder", "deleteFolder", "checkApiHealth"}

\* The id of the mock file, and the arguments that matter to a method's outcome:
\* the file id of getNotes.
MockFileId == "mock-file-1"
ServiceArgs(method) == IF method = "getNotes" THEN {MockFileId, "1"} ELSE {""}

\* How a request ends: a response whose body says status 'ok', a response whose
\* body says something else, or a failure (an error status, a timeout, no network).
HttpOutcomes == {"ok", "other", "fail"}

NoCall == [method |-> "", arg |-> "", http |-> "none", result |-> "none", sent |-> 0,
           value |-> <<>>]

\* What the promise of a method settles with: the response's data, undefined,
\* the health check's boolean, the mock data, or a rejection.
ServiceResult(method, arg, http, prod) ==
    IF http # "fail"
    THEN CASE method = "checkApiHealth" -> IF http = "ok" THEN "true" ELSE "false"
           [] method = "updateNoteOrder" -> "undefined"
           [] OTHER -> "data"
    ELSE CASE method \in {"getAllFiles", "getFolders"} ->
                IF ~prod THEN "mock" ELSE "rejected"
           [] method = "getNotes" ->
                IF ~prod /\ arg = MockFileId THEN "mock" ELSE "rejected"
           [] method = "checkApiHealth" -> "false"
           [] OTHER -> "rejected"

\* A method is called: its one request is sent.
ServiceCall(method, arg) ==
    /\ Len(requests) < MaxRequests
    /\ requests' = Append(requests, [method |-> method, arg |-> arg, sent |-> 1])
    /\ UNCHANGED <<isProd, lastCall>>

\* The request of a call ends and the call's promise settles.
RequestEnds(i, http) ==
    /\ i \in 1..Len(requests)
    /\ requests' = SpliceOut(requests, i - 1)
    /\ lastCall' = [method |-> requests[i].method, arg |-> requests[i].arg, http |-> http,
                    result |-> ServiceResult(requests[i].method, requests[i].arg, http, isProd),
                    sent |-> requests[i].sent, value |-> <<>>]
    /\ UNCHANGED isProd

\* ---- the lists getAllFiles, getNotes and getFolders resolve with ----

\* response.data of a list endpoint: an array of rows, or something that is not
\* an array (an error object, null, a string).  A row is the record of its id
\* fields; a field the row does not have reads as undefined.
MaxRows == 2
NotArray == [isArray |-> FALSE, items |-> <<>>]
ArrayOf(rows) == [isArray |-> TRUE, items |-> rows]
ListMethods == {"getAllFiles", "getNotes", "getFolders"}

\* The rows the server sends: a file with its folder or with folder_id null, a
\* note with its file, a folder.
ServerRows(method) ==
    CASE method = "getAllFiles" ->
            {[id |-> Num(k), folder_id |-> f, file_id |-> Undefined] :
                k \in 1..MaxRows, f \in {Null, Num(1)}}
      [] method = "getNotes" ->
            {[id |-> Num(k), folder_id |-> Undefined, file_id |-> Num(1)] : k \in 1..MaxRows}
      [] OTHER ->
            {[id |-> Num(k), folder_id |-> Undefined, file_id |-> Undefined] : k \in 1..MaxRows}

Payloads(method) ==
    {NotArray} \cup
    {ArrayOf(rows) : rows \in UNION {[1..n -> ServerRows(method)] : n \in 0..MaxRows}}

\* mockData: the ids of its folders, files and notes (a mock note has no file_id).
MockFolder1 == Str(<<"m", "o", "c", "k", "-", "f", "o", "l", "d", "e", "r", "-", "1">>)
MockFolder2 == Str(<<"m", "o", "c", "k", "-", "f", "o", "l", "d", "e", "r", "-", "2">>)
MockFile1 == Str(<<"m", "o", "c", "k", "-", "f", "i", "l", "e", "-", "1">>)
MockFile2 == Str(<<"m", "o", "c", "k", "-", "f", "i", "l", "e", "-", "2">>)
MockNote1 == Str(<<"m", "o", "c", "k", "-", "n", "o", "t", "e", "-", "1">>)
mockData(method) ==
    CASE method = "getAllFiles" ->
            ArrayOf(<<[id |-> MockFile1, folder_id |-> Null, file_id |-> Undefined],
                      [id |-> MockFile2, folder_id |-> MockFolder1, file_id |-> Undefined]>>)
      [] method = "getNotes" ->
            ArrayOf(<<[id |-> MockNote1, folder_id |-> Undefined, file_id |-> Undefined]>>)
      [] OTHER ->
            ArrayOf(<<[id |-> MockFolder1, folder_id |-> Undefined, file_id |-> Undefined],
                      [id |-> MockFolder2, folder_id |-> Undefined, file_id |-> Undefined]>>)

\* The wrapper of getAllFiles (lines 267-275).
getAllFiles(data) ==
    IF data.isArray
    THEN [i \in 1..Len(data.items) |->
            [data.items[i] EXCEPT
                !.id = String(data.items[i].id),
                !.folder_id = IF Truthy(data.items[i].folder_id)
                              THEN String(data.items[i].folder_id) ELSE Null]]
    ELSE <<>>

\* The wrapper of getNotes (lines 278-286).
getNotes(data) ==
    IF data.isArray
    THEN [i \in 1..Len(data.items) |->
            [data.items[i] EXCEPT
                !.id = String(data.items[i].id),
                !.file_id = String(data.items[i].file_id)]]
    ELSE <<>>

\* The wrapper of getFolders (lines 289-295).
getFolders(data) ==
    IF data.isArray
    THEN [i \in 1..Len(data.items) |->
            [data.items[i] EXCEPT !.id = String(data.items[i].id)]]
    ELSE <<>>

\* The request of a list method ends with this response body (if it did not
\* fail): the original method resolves with the body or the mock data, or
\* rejects, and the wrapper maps what it resolved with.
ListRequestEnds(i, http, payload) ==
    /\ i \in 1..Len(requests)
    /\ requests[i].method \in ListMethods
    /\ payload \in Payloads(requests[i].method)
    /\ LET method == requests[i].method
           result == ServiceResult(method, requests[i].arg, http, isProd)
           data == IF result = "mock" THEN mockData(method) ELSE payload
           list == CASE method = "getAllFiles" -> getAllFiles(data)
                     [] method = "getNotes" -> getNotes(data)
                     [] OTHER -> getFolders(data)
       IN  lastCall' = [method |-> method, arg |-> requests[i].arg, http |-> http,
                        result |-> result, sent |-> requests[i].sent,
                        value |-> IF result = "rejected" THEN <<>> ELSE list]
    /\ requests' = SpliceOut(requests, i - 1)
    /\ UNCHANGED isProd

ParkService ==
    /\ isProd = TRUE
    /\ requests = <<>>
    /\ lastCall = NoCall

\* The module loaded in a production or a development build.
InitService ==
    /\ isProd \in BOOLEAN
    /\ requests = <<>>
    /\ lastCall = NoCall

ServiceCalls == \E method \in ServiceMethods : \E arg \in ServiceArgs(method) : ServiceCall(method, arg)
ServiceRequestEnds == \E i \in 1..Len(requests) : \E http \in HttpOutcomes : RequestEnds(i, http)

ServiceListCalls ==
    \E method \in ListMethods : \E arg \in ServiceArgs(method) : ServiceCall(method, arg)
ServiceListRequestEnds ==
    \E i \in 1..Len(requests) : \E http \in {"ok", "fail"} :
        \E payload \in Payloads(requests[i].method) : ListRequestEnds(i, http, payload)

NextServiceLists ==
    \/ ServiceListCalls /\ UNCHANGED <<noteVars, fileVars, editorVars, registryVars, mouseVars>>
    \/ ServiceListRequestEnds /\ UNCHANGED <<noteVars, fileVars, editorVars, registryVars, mouseVars>>

NextService ==
    \/ ServiceCalls /\ UNCHANGED <<noteVars, fileVars, editorVars, registryVars, mouseVars>>
    \/ ServiceRequestEnds /\ UNCHANGED <<noteVars, fileVars, editorVars, registryVars, mouseVars>>

-----------------------------------------------------------------------------
(* The editor registry: window.tiptapEditors (TipTapEditor.jsx), a map from *)
(* note id to the live editor of the component mounted for that note.       *)

NumEditors == 3
Editors == 1..NumEditors
Unmounted == Null
NoEditor == 0

\* The property keys of window.tiptapEditors: a note id used as a key is its string.
RegistryKeys == {String(Num(k)) : k \in NoteKeys}

\* The note ids the components are given (a number or its string).
RegistryNoteIds == {NoteId("mixed", k) : k \in NoteKeys}

NoRegEvent == [kind |-> "none", editor |-> NoEditor, id |-> Null]

\* if (editor && note?.id) window.tiptapEditors[note.id] = editor
RegistrySet(reg, id, c) ==
    IF Truthy(id) THEN [reg EXCEPT ![String(id)] = c] ELSE reg

\* The effect's cleanup: delete window.tiptapEditors[note.id], with the note of
\* the render that registered.
RegistryDelete(reg, id) ==
    IF Truthy(id) THEN [reg EXCEPT ![String(id)] = NoEditor] ELSE reg

\* A component is mounted for a note: the effect registers its editor.
EditorMounts(c, id) ==
    /\ mounted[c] = Unmounted
    /\ mounted' = [mounted EXCEPT ![c] = id]
    /\ registry' = RegistrySet(registry, id, c)
    /\ lastReg' = [kind |-> "mount", editor |-> c, id |-> id]

\* A component is unmounted: the effect's cleanup runs.
EditorUnmounts(c) ==
    /\ mounted[c] # Unmounted
    /\ mounted' = [mounted EXCEPT ![c] = Unmounted]
    /\ registry' = RegistryDelete(registry, mounted[c])
    /\ lastReg' = [kind |-> "unmount", editor |-> c, id |-> mounted[c]]

\* A mounted component is given a note of another id: the cleanup of the last
\* render runs, then the effect.
EditorNoteIdChanges(c, id) ==
    /\ mounted[c] # Unmounted
    /\ mounted[c] # id
    /\ mounted' = [mounted EXCEPT ![c] = id]
    /\ registry' = RegistrySet(RegistryDelete(registry, mounted[c]), id, c)
    /\ lastReg' = [kind |-> "change", editor |-> c, id |-> id]

ParkRegistry ==
    /\ mounted = [c \in Editors |-> Unmounted]
    /\ registry = [k \in RegistryKeys |-> NoEditor]
    /\ lastReg = NoRegEvent

\* The page loaded: window.tiptapEditors = {} and no editor mounted.
InitRegistry == ParkRegistry

RegistryMounts == \E c \in Editors : \E id \in RegistryNoteIds : EditorMounts(c, id)
RegistryUnmounts == \E c \in Editors : EditorUnmounts(c)
RegistryNoteIdChanges == \E c \in Editors : \E id \in RegistryNoteIds : EditorNoteIdChanges(c, id)

NextRegistry ==
    \/ RegistryMounts /\ UNCHANGED <<noteVars, fileVars, editorVars, serviceVars, mouseVars>>
    \/ RegistryUnmounts /\ UNCHANGED <<noteVars, fileVars, editorVars, serviceVars, mouseVars>>
    \/ RegistryNoteIdChanges /\ UNCHANGED <<noteVars, fileVars, editorVars, serviceVars, mouseVars>>

-----------------------------------------------------------------------------
(* The throttled mouse-move handler of FileDndContext (dnd-utils.jsx): the  *)
(* effect that installs it makes a new throttle each time it runs.          *)

MaxStale == 2
FreshThrottle == [inThrottle |-> FALSE, stale |-> 0]
NoMouse == [kind |-> "none", within |-> FALSE]

\* The effect's dependencies [activeFileId, hoverFolderId, ...] changed in a
\* render: the handler is removed and a new one, with a throttle of its own,
\* is installed.
EffectReruns(active, hover, activeAfter, hoverAfter) ==
    active # activeAfter \/ hover # hoverAfter

\* The throttle after an event: a run of the body closes the gate and starts the
\* window timer; a re-run of the effect installs an open throttle, and the
\* window timer of the replaced one, if pending, stays pending.
MouseAfter(m, ran, reruns) ==
    LET afterRun == IF ran THEN [m EXCEPT !.inThrottle = TRUE] ELSE m
    IN  IF reruns
        THEN [inThrottle |-> FALSE,
              stale |-> afterRun.stale + (IF afterRun.inThrottle THEN 1 ELSE 0)]
        ELSE afterRun

\* The body of mouseMoveHandler.
mouseMoveBody(stack) ==
    IF ~Truthy(activeFileId) THEN UNCHANGED <<hoverFolderId, highlight>>
    ELSE LET folderElement == Find(stack, {el \in Range(stack) : IsFolderElement(el)})
         IN  IF folderElement # NoElement
             THEN IF Truthy(folderElement.folderId) /\ folderElement.folderId # hoverFolderId
                  THEN highlightFolderElement(folderElement.folderId, FALSE)
                  ELSE UNCHANGED <<hoverFolderId, highlight>>
             ELSE IF Truthy(hoverFolderId)
                  THEN /\ highlight' = clearAllFolderHighlights
                       /\ hoverFolderId' = Null
                  ELSE UNCHANGED <<hoverFolderId, highlight>>

\* A mousemove event on window: the throttled handler runs the body if its gate
\* is open and discards the event otherwise.
MouseMoves(stack) ==
    /\ IF ~mouse.inThrottle
       THEN /\ mouseMoveBody(stack)
            /\ lastMouse' = [kind |-> "run", within |-> mouse.stale > 0]
            /\ mouse' = MouseAfter(mouse, TRUE,
                                   EffectReruns(activeFileId, hoverFolderId,
                                                activeFileId, hoverFolderId'))
       ELSE /\ UNCHANGED <<hoverFolderId, highlight, mouse>>
            /\ lastMouse' = [kind |-> "discard", within |-> TRUE]
    /\ mouse'.stale <= MaxStale
    /\ UNCHANGED <<files, dndActive, activeFileId, isDragging, lastFile,
                   dragStartTime, watchdog, clock, expanded, lastMove, deferred>>

\* The window timer of the installed handler runs: inThrottle = false.
ThrottleWindowEnds ==
    /\ mouse.inThrottle
    /\ mouse' = [mouse EXCEPT !.inThrottle = FALSE]
    /\ UNCHANGED <<fileVars, lastMouse>>

\* The window timer of a replaced handler runs.
StaleWindowEnds ==
    /\ mouse.stale > 0
    /\ mouse' = [mouse EXCEPT !.stale = mouse.stale - 1]
    /\ UNCHANGED <<fileVars, lastMouse>>

\* A drag of the first file starts; the effect runs again.
MouseDragStarts ==
    /\ handleDragStart(1)
    /\ mouse' = MouseAfter(mouse, FALSE,
                           EffectReruns(activeFileId, hoverFolderId,
                                        activeFileId', hoverFolderId'))
    /\ mouse'.stale <= MaxStale
    /\ UNCHANGED lastMouse

\* The drag ends where the drag library reports no `over`.
MouseDragEnds ==
    /\ dndActive # NoDrag
    /\ handleDragEnd([active |-> dndActive, over |-> NoOver, stack |-> <<>>, throws |-> FALSE])
    /\ mouse' = MouseAfter(mouse, FALSE,
                           EffectReruns(activeFileId, hoverFolderId,
                                        activeFileId', hoverFolderId'))
    /\ mouse'.stale <= MaxStale
    /\ UNCHANGED lastMouse

ParkMouse ==
    /\ mouse = FreshThrottle
    /\ lastMouse = NoMouse

MouseMovesOver == \E st \in StacksUpTo(1) : MouseMoves(st)

NextMouse ==
    \/ MouseDragStarts /\ UNCHANGED <<noteVars, editorVars, serviceVars, registryVars>>
    \/ MouseMovesOver /\ UNCHANGED <<noteVars, editorVars, serviceVars, registryVars>>
    \/ MouseDragEnds /\ UNCHANGED <<noteVars, editorVars, serviceVars, registryVars>>
    \/ ThrottleWindowEnds /\ UNCHANGED <<noteVars, editorVars, serviceVars, registryVars>>
    \/ StaleWindowEnds /\ UNCHANGED <<noteVars, editorVars, serviceVars, registryVars>>

-----------------------------------------------------------------------------
(* The specifications.                                                     *)

\* FileDndContext after its first render: no drag, nothing hovered or highlighted.
FileIdle ==
    /\ dndActive = NoDrag
    /\ activeFileId = Null
    /\ hoverFolderId = Null
    /\ isDragging = FALSE
    /\ lastFile = NoFileEvent
    /\ dragStartTime = Null
    /\ watchdog = NoWatchdog
    /\ clock = 1
    /\ highlight = clearAllFolderHighlights
    /\ lastMove = NoMove
    /\ deferred = 0

ParkFile ==
    /\ files = <<>>
    /\ expanded = {}
    /\ FileIdle

ParkNote ==
    /\ items = <<>>
    /\ serverOrder = {}
    /\ noteInflight = <<>>
    /\ lastApplied = <<>>
    /\ lastNote = NoEvent

InitNoteSpec == InitNote /\ ParkFile /\ ParkEditor /\ ParkService /\ ParkRegistry /\ ParkMouse

SpecNote == InitNoteSpec /\ [][NextNote]_vars

\* One drag end on a list of any length up to MaxItems, nothing in flight.
InitNoteDrag ==
    /\ \E n \in 1..MaxItems : \E form \in IdForms :
            items = [k \in 1..n |-> [id |-> NoteId(form, k)]]
    /\ serverOrder = {}
    /\ noteInflight = <<>>
    /\ lastApplied = <<>>
    /\ lastNote = NoEvent

NextNoteDrag == lastNote.kind = "none" /\ NoteDragEnds /\ UNCHANGED <<fileVars, editorVars, serviceVars, registryVars, mouseVars>>

InitNoteDragSpec == InitNoteDrag /\ ParkFile /\ ParkEditor /\ ParkService /\ ParkRegistry /\ ParkMouse

SpecNoteDrag == InitNoteDragSpec /\ [][NextNoteDrag]_vars

\* FileDndContext mounted over files that share one container, in any form of
\* folder_id; no drag in progress.
InitFile ==
    /\ \E form \in FolderIdForms :
            files = [k \in FileKeys |-> [id |-> FileId(k), folder_id |-> form]]
    /\ expanded = {}
    /\ FileIdle

\* One gesture: drag start, drag-over events, one drag end over any stack.
NextFileDrop ==
    \/ lastFile.kind = "none" /\ FileDragStarts /\ UNCHANGED <<noteVars, editorVars, serviceVars, registryVars, mouseVars>>
    \/ lastFile.kind = "none" /\ FileDragOver /\ UNCHANGED <<noteVars, editorVars, serviceVars, registryVars, mouseVars>>
    \/ lastFile.kind = "none" /\ FileDragEnds /\ UNCHANGED <<noteVars, editorVars, serviceVars, registryVars, mouseVars>>

InitFileSpec == InitFile /\ ParkNote /\ ParkEditor /\ ParkService /\ ParkRegistry /\ ParkMouse

SpecFileDrop == InitFileSpec /\ [][NextFileDrop]_vars

\* Gesture after gesture over files loaded by getAllFiles (folder_id null).
InitFileTrip ==
    /\ files = [k \in FileKeys |-> [id |-> FileId(k), folder_id |-> Null]]
    /\ expanded = {}
    /\ FileIdle

NextFile ==
    \/ FileTripStarts /\ UNCHANGED <<noteVars, editorVars, serviceVars, registryVars, mouseVars>>
    \/ FileTripOver /\ UNCHANGED <<noteVars, editorVars, serviceVars, registryVars, mouseVars>>
    \/ FileTripEnds /\ UNCHANGED <<noteVars, editorVars, serviceVars, registryVars, mouseVars>>
    \/ MoveRejected /\ UNCHANGED <<noteVars, editorVars, serviceVars, registryVars, mouseVars>>
    \/ DeferredCleanupRuns /\ UNCHANGED <<noteVars, editorVars, serviceVars, registryVars, mouseVars>>

InitFileTripSpec == InitFileTrip /\ ParkNote /\ ParkEditor /\ ParkService /\ ParkRegistry /\ ParkMouse

SpecFile == InitFileTripSpec /\ [][NextFile]_vars

\* A drag over a sidebar whose folders are open or closed, with the clock running.
InitFileHover ==
    /\ files = [k \in FileKeys |-> [id |-> FileId(k), folder_id |-> Null]]
    /\ expanded \in SUBSET FolderIds
    /\ FileIdle

FileToggles == \E f \in FolderIds : ToggleFolder(f)

\* One gesture, up to its drag end; the watchdog may have run before it.
InGesture == lastFile.kind \in {"none", "watchdog"}

NextFileHover ==
    \/ InGesture /\ FileDragStarts /\ UNCHANGED <<noteVars, editorVars, serviceVars, registryVars, mouseVars>>
    \/ InGesture /\ FileDragStartsUnknown /\ UNCHANGED <<noteVars, editorVars, serviceVars, registryVars, mouseVars>>
    \/ InGesture /\ FileDragOver /\ UNCHANGED <<noteVars, editorVars, serviceVars, registryVars, mouseVars>>
    \/ InGesture /\ FileTripEnds /\ UNCHANGED <<noteVars, editorVars, serviceVars, registryVars, mouseVars>>
    \/ InGesture /\ WatchdogRuns /\ UNCHANGED <<noteVars, editorVars, serviceVars, registryVars, mouseVars>>
    \/ InGesture /\ ClockTick /\ UNCHANGED <<noteVars, editorVars, serviceVars, registryVars, mouseVars>>
    \/ InGesture /\ FileToggles /\ UNCHANGED <<noteVars, editorVars, serviceVars, registryVars, mouseVars>>

InitFileHoverSpec == InitFileHover /\ ParkNote /\ ParkEditor /\ ParkService /\ ParkRegistry /\ ParkMouse

SpecFileHover == InitFileHoverSpec /\ [][NextFileHover]_vars

\* The browser runs a due timer and the clock goes on; the user owes nothing.
SpecFileHoverFair ==
    /\ SpecFileHover
    /\ WF_vars(InGesture /\ WatchdogRuns /\ UNCHANGED <<noteVars, editorVars, serviceVars, registryVars, mouseVars>>)
    /\ WF_vars(InGesture /\ ClockTick /\ UNCHANGED <<noteVars, editorVars, serviceVars, registryVars, mouseVars>>)

FileNativeDragOver == \E f \in FolderIds : NativeDragOver(f)

\* Gesture after gesture of the first file with every timer of the component:
\* the deferred cleanups, the watchdog, the clock, and the browser's own drags
\* between the gestures.
NextFileSeq ==
    \/ FileTripStarts /\ UNCHANGED <<noteVars, editorVars, serviceVars, registryVars, mouseVars>>
    \/ FileTripOver /\ UNCHANGED <<noteVars, editorVars, serviceVars, registryVars, mouseVars>>
    \/ FileTripEnds /\ UNCHANGED <<noteVars, editorVars, serviceVars, registryVars, mouseVars>>
    \/ DeferredCleanupRuns /\ UNCHANGED <<noteVars, editorVars, serviceVars, registryVars, mouseVars>>
    \/ WatchdogRuns /\ UNCHANGED <<noteVars, editorVars, serviceVars, registryVars, mouseVars>>
    \/ ClockTick /\ UNCHANGED <<noteVars, editorVars, serviceVars, registryVars, mouseVars>>
    \/ FileNativeDragOver /\ UNCHANGED <<noteVars, editorVars, serviceVars, registryVars, mouseVars>>
    \/ NativeDrop /\ UNCHANGED <<noteVars, editorVars, serviceVars, registryVars, mouseVars>>

InitFileSeqSpec == InitFileTrip /\ ParkNote /\ ParkEditor /\ ParkService /\ ParkRegistry /\ ParkMouse

SpecFileSeq == InitFileSeqSpec /\ [][NextFileSeq]_vars

InitServiceSpec == InitService /\ ParkNote /\ ParkFile /\ ParkEditor /\ ParkRegistry /\ ParkMouse
SpecService == InitServiceSpec /\ [][NextService]_vars

InitServiceListsSpec == InitService /\ ParkNote /\ ParkFile /\ ParkEditor /\ ParkRegistry /\ ParkMouse
SpecServiceLists == InitServiceListsSpec /\ [][NextServiceLists]_vars

InitFormatSpec == InitFormat /\ ParkNote /\ ParkFile /\ ParkService /\ ParkRegistry /\ ParkMouse
SpecFormat == InitFormatSpec /\ [][NextFormat]_vars

InitFormatEditSpec == InitFormat /\ ParkNote /\ ParkFile /\ ParkService /\ ParkRegistry /\ ParkMouse
SpecFormatEdit == InitFormatEditSpec /\ [][NextFormatEdit]_vars

InitEditorSpec == InitEditor /\ ParkNote /\ ParkFile /\ ParkService /\ ParkRegistry /\ ParkMouse

SpecEditor == InitEditorSpec /\ [][NextEditor]_vars

InitRegistrySpec == InitRegistry /\ ParkNote /\ ParkFile /\ ParkEditor /\ ParkService /\ ParkMouse
SpecRegistry == InitRegistrySpec /\ [][NextRegistry]_vars

InitMouseSpec == InitFileTrip /\ ParkNote /\ ParkEditor /\ ParkService /\ ParkRegistry /\ ParkMouse
SpecMouse == InitMouseSpec /\ [][NextMouse]_vars

-----------------------------------------------------------------------------
(* Properties of the note list.                                            *)

\* The 0-based positions at which a list of ids names the note with server key k.
KeyPositions(ids, k) == {i - 1 : i \in {j \in 1..Len(ids) : ServerKey(ids[j]) = k}}

\* The 0-based positions of the item with this id (compared as strings).
ItemPositions(arr, id) ==
    {i - 1 : i \in {j \in 1..Len(arr) : String(arr[j].id) = String(id)}}

\* C2: every submitted reorder list names each note of the container exactly
\* once; the container's set of notes never changes; and once a reorder call has
\* succeeded, each note's order column is its index in the list applied last, so
\* order values are unique within the container.
C2_ReorderMatchesSubmittedList ==
    /\ \A c \in 1..Len(noteInflight) : \A k \in NoteKeys :
            Cardinality(KeyPositions(noteInflight[c].ids, k)) = 1
    /\ \A c \in 1..Len(noteInflight) : Len(noteInflight[c].ids) = NumNotes
    /\ {r.key : r \in serverOrder} = NoteKeys
    /\ Cardinality(serverOrder) = NumNotes
    /\ {ServerKey(items[i].id) : i \in 1..Len(items)} = NoteKeys
    /\ Len(items) = NumNotes
    /\ lastApplied # <<>> =>
            /\ \A r \in serverOrder : KeyPositions(lastApplied, r.key) = {r.order}
            /\ \A r1, r2 \in serverOrder : r1.order = r2.order => r1 = r2

\* C2 witness: a reorder call succeeded and moved a note away from its first index.
C2_Witness ==
    /\ lastNote.kind = "settle"
    /\ lastNote.http = "ok"
    /\ \E r \in serverOrder : r.order # r.key - 1
    /\ \A r \in serverOrder : KeyPositions(lastApplied, r.key) = {r.order}

C8_DropMovesItemToIndex ==
    (lastNote.kind = "drag" /\ lastNote.over # NoOver) =>
        \A i, j \in 0..(Len(lastNote.before) - 1) :
            (/\ i # j
             /\ ItemPositions(lastNote.before, lastNote.active) = {i}
             /\ ItemPositions(lastNote.before, lastNote.over) = {j}) =>
                /\ Len(lastNote.calls) = 1
                /\ LET new == lastNote.calls[1]
                       old == lastNote.before
                   IN  /\ Len(new) = Len(old)
                       /\ At(new, j) = At(old, i)
                       /\ \A x \in 1..Len(old) : Cardinality(ItemPositions(new, old[x].id)) = 1
                       /\ \A x, y \in 1..Len(old) :
                            (x < y /\ x # i + 1 /\ y # i + 1) =>
                                \A px \in ItemPositions(new, old[x].id) :
                                    \A py \in ItemPositions(new, old[y].id) : px < py

\* C8 witness: an item was dragged across at least one other item of a list of
\* three or more, and onReorder was called.
C8_Witness ==
    /\ lastNote.kind = "drag"
    /\ Len(lastNote.before) >= 3
    /\ Len(lastNote.calls) = 1
    /\ \E i \in ItemPositions(lastNote.before, lastNote.active) :
          \E j \in ItemPositions(lastNote.before, lastNote.over) : j + 1 < i

-----------------------------------------------------------------------------
(* Properties of one file drag end (SpecFileDrop).                         *)

FileEnded == lastFile.kind = "end"

\* The drag end reached the hit-testing: `over` reported, file found, no throw.
FileEndResolved == FileEnded /\ lastFile.over # NoOver /\ lastFile.found /\ ~lastFile.throws

MoveCall(activeId, folderId) == [fileId |-> String(activeId), folderId |-> folderId]

HasFolderMarker(stack) ==
    folderContentElement(stack) # NoElement \/ folderHeaderElement(stack) # NoElement

HasRootMarker(stack) == rootAreaElement(stack) # NoElement \/ emptyAreaAtBottom(stack)

\* C1 (as stated): a drag end with no hovered folder tracked and no folder-content,
\* folder-header or root-area marker under the pointer makes no move call and no
\* reorder call, with or without `over`, for files in a folder and in root.
C1_NoTargetNoCall ==
    (FileEnded /\ ~Truthy(lastFile.hover)
       /\ ~HasFolderMarker(lastFile.stack) /\ ~HasRootMarker(lastFile.stack))
    => (lastFile.calls = <<>> /\ lastFile.reorders = <<>>)

\* C4 (as stated): with a hovered folder tracked at drag end, a file of another
\* container is moved to the hovered folder and a file of the hovered folder is
\* not moved, whatever is under the pointer.
C4_HoverAlwaysDecides ==
    (FileEnded /\ lastFile.found /\ Truthy(lastFile.hover))
    => lastFile.calls = IF Container(lastFile.from) = Container(lastFile.hover) THEN <<>>
                        ELSE <<MoveCall(lastFile.active, lastFile.hover)>>

\* C4 (amended): when the drag end reaches the hit-testing with a hovered folder
\* tracked, a file of another container is moved to the hovered folder whatever is
\* under the pointer; a file of the hovered folder is not moved, except that it is
\* moved to root when the pointer is in the sidebar with no folder-content and no
\* folder-header element under it.
C4_HoverDecidesExceptSidebar ==
    (FileEndResolved /\ Truthy(lastFile.hover))
    => lastFile.calls =
         IF Container(lastFile.from) # Container(lastFile.hover)
         THEN <<MoveCall(lastFile.active, lastFile.hover)>>
         ELSE IF inSidebar(lastFile.stack) /\ ~HasFolderMarker(lastFile.stack)
              THEN <<MoveCall(lastFile.active, Null)>>
              ELSE <<>>

\* A file dropped with its own folder hovered, in the sidebar outside any folder
\* element, and another dropped on a root marker with a different folder hovered.
C4_Witness ==
    /\ FileEndResolved
    /\ Truthy(lastFile.hover)
    /\ Container(lastFile.from) = Container(lastFile.hover)
    /\ lastFile.calls = <<MoveCall(lastFile.active, Null)>>

\* The folder of the first folder marker by the stated order: content, then header.
MarkedFolder(stack) ==
    IF folderContentElement(stack) # NoElement
    THEN ContentFolder(folderContentElement(stack))
    ELSE HeaderFolder(folderHeaderElement(stack))

\* C5 (as stated): with no hovered folder tracked, a folder marker under the
\* pointer decides before any root-area marker, and a content marker before a
\* header marker: the file is moved to that folder unless it is already there.
C5_FolderMarkerBeforeRoot ==
    (FileEndResolved /\ ~Truthy(lastFile.hover) /\ HasFolderMarker(lastFile.stack))
    => lastFile.calls =
         IF Container(lastFile.from) = Container(MarkedFolder(lastFile.stack)) THEN <<>>
         ELSE <<MoveCall(lastFile.active, MarkedFolder(lastFile.stack))>>

\* The target by the order the handler follows: the root area of the sidebar,
\* then the topmost element with data-droppable-id, then the topmost content
\* marker, then the topmost header marker, and root when there is none.
RootFirstTarget(stack) ==
    IF inSidebar(stack) /\ HasRootMarker(stack) THEN Null
    ELSE IF droppableElement(stack) # NoElement THEN DroppableTarget(droppableElement(stack))
    ELSE IF HasFolderMarker(stack) THEN MarkedFolder(stack)
    ELSE Null

\* C5 (amended): with no hovered folder tracked, a drag end that reaches the
\* hit-testing resolves its target root area first (inside the sidebar), then by
\* data-droppable-id, then content marker, then header marker: a file of another
\* container is moved to that target, and no call names any other folder.
C5_RootAreaBeforeFolderMarkers ==
    (FileEndResolved /\ ~Truthy(lastFile.hover))
    => LET t == RootFirstTarget(lastFile.stack)
       IN  /\ Container(t) # Container(lastFile.from)
                => lastFile.calls = <<MoveCall(lastFile.active, t)>>
           /\ \A i \in 1..Len(lastFile.calls) :
                lastFile.calls[i].folderId \in {t, Null}

\* A file of a folder dropped where a marker of another folder and the root area
\* of the sidebar are both under the pointer: it goes to root.
C5_Witness ==
    /\ FileEndResolved
    /\ ~Truthy(lastFile.hover)
    /\ HasFolderMarker(lastFile.stack)
    /\ Container(MarkedFolder(lastFile.stack)) # Container(lastFile.from)
    /\ Container(lastFile.from) # Null
    /\ rootAreaElement(lastFile.stack) # NoElement
    /\ lastFile.calls = <<MoveCall(lastFile.active, Null)>>

\* C6 (as stated): no move call names the container the file is already in,
\* null, undefined, '' and 0 all being root, on every path of the drag end.
C6_NoMoveToOwnContainer ==
    FileEnded =>
        \A i \in 1..Len(lastFile.calls) :
            Container(lastFile.calls[i].folderId) # Container(lastFile.from)

\* The ids of the files, in list order.
FileIdList(fs) == [k \in 1..Len(fs) |-> String(fs[k].id)]

\* C7 (as stated): a file dropped on another file of its container makes one
\* reorder call carrying the ids of the container in their order after the drag.
C7_DropOnSiblingReorders ==
    (FileEndResolved /\ lastFile.over # String(lastFile.active))
    => lastFile.reorders =
         <<arrayMove(FileIdList(files),
                     FindFile(files, lastFile.active), FindFile(files, lastFile.over))>>

-----------------------------------------------------------------------------
(* Properties of successive file drags (SpecFile).                         *)

\* The step is a drag end.
IsFileEndStep == dndActive # NoDrag /\ dndActive' = NoDrag

\* The container of the file with this id in a list.
ContainerOf(fs, id) == Container(At(fs, FindFile(fs, id)).folder_id)

\* The drag end recorded in `ev` dropped on container A and nothing else: on the
\* root list with no folder hovered, or on the header of folder A with no other
\* folder hovered.
DropsOnly(ev, A) ==
    /\ ev.over # NoOver
    /\ ~ev.throws
    /\ IF Container(A) = Null
       THEN ev.stack = <<RootFilesEl>> /\ ev.hover = Null
       ELSE ev.stack = <<FolderHeaderEl(Container(A))>> /\ ev.hover \in {Null, Container(A)}

\* C9: a drag that moved file X from container A to another container B, followed
\* by a drag of X back onto A, makes a second move call with target A and leaves
\* X in A, for A and B among root and the folders.
C9_MoveRoundTrip ==
    [][(/\ IsFileEndStep
        /\ lastFile.kind = "end"
        /\ lastFile.calls # <<>>
        /\ Container(lastFile.calls[1].folderId) # Container(lastFile.from)
        /\ String(lastFile'.active) = lastFile.calls[1].fileId
        /\ DropsOnly(lastFile', lastFile.from))
       => (/\ Len(lastFile'.calls) = 1
           /\ lastFile'.calls[1].fileId = lastFile.calls[1].fileId
           /\ Container(lastFile'.calls[1].folderId) = Container(lastFile.from)
           /\ ContainerOf(files', lastFile'.active) = Container(lastFile.from)
           /\ lastFile'.back)]_vars

\* A second drag has just moved the file back to the folder the first took it from.
C9_Witness ==
    /\ lastFile.kind = "end"
    /\ lastFile.back
    /\ Container(lastFile.from) # Null
    /\ Container(lastFile.calls[1].folderId) # Null
    /\ ContainerOf(files, lastFile.active) = Container(lastFile.calls[1].folderId)

-----------------------------------------------------------------------------
(* Properties of the autosave (SpecEditor).                                *)

\* C10 (as stated): a burst of editor updates less than 500 ms apart makes exactly
\* one save, 500 ms after the last update and with the latest content, whatever
\* renders come between the updates.
C10_OneSavePerBurst ==
    /\ lastEdit.kind = "save"
         => (/\ lastEdit.nth = 1
             /\ Ms(lastEdit.sinceLast) = DebounceDelay
             /\ lastEdit.content = lastEdit.latest)
    /\ (burst.open /\ now > burst.last + DelayTicks) => burst.saves = 1

\* The step is the arrival of a save's response.
IsSaveArrival == Len(saving') < Len(saving)

\* C11 (as stated): when a save arrives as the note's stored content after the
\* user has edited the editor since that save was issued, the editor keeps the
\* newer content.
C11_OlderSaveKeepsNewerEdit ==
    [][(IsSaveArrival /\ \E i \in 1..Len(saving) :
            /\ saving' = SpliceOut(saving, i - 1)
            /\ saving[i].edited)
       => editorHTML' = editorHTML]_vars

\* ---- the hover highlight and the watchdog ----

Highlighted(f) == highlight[f].header \/ highlight[f].content
NothingHighlighted == \A f \in FolderIds : ~Highlighted(f)
DragStateClean ==
    /\ ~isDragging
    /\ activeFileId = Null
    /\ hoverFolderId = Null
    /\ dragStartTime = Null
    /\ NothingHighlighted

\* C12: at every moment at most one folder carries highlight styling, and it is
\* the folder hoverFolderId names; highlighting another folder leaves none of
\* the styling of the one highlighted before.
C12_OneHighlightAtHover ==
    /\ Cardinality({f \in FolderIds : Highlighted(f)}) <= 1
    /\ \A f \in FolderIds : Highlighted(f) => hoverFolderId = f

\* A folder other than the first is highlighted, in the middle of a gesture.
C12_Witness ==
    /\ dndActive # NoDrag
    /\ \E f \in FolderIds \ {String(Num(1))} : Highlighted(f) /\ hoverFolderId = f

\* The drag has lasted longer than the watchdog's delay and has not ended.
Overdue ==
    /\ dndActive # NoDrag
    /\ isDragging
    /\ clock - dragStartTime.v[1] > WatchdogTicks

\* C13: a drag that stays active longer than 10 s without a drag end is
\* eventually cleaned up by the watchdog: isDragging false, activeFileId,
\* hoverFolderId and dragStartTime null, no folder highlighted.
C13_WatchdogCleansOverdueDrag == Overdue ~> DragStateClean

\* C14: once the watchdog has cleaned up, a later drag end of the same gesture
\* issues no move call and changes the container of no file.
C14_NoMoveAfterWatchdog ==
    [][(IsFileEndStep /\ lastFile.kind = "watchdog")
        => (lastFile'.calls = <<>> /\ files' = files)]_vars

\* C15: a drag end whose dragged id is not among the files issues no move call
\* for any file, leaves the files alone and cleans the drag state.
C15_UnknownFileNoMove ==
    [][(IsFileEndStep /\ \A k \in 1..Len(files) : String(files[k].id) # dndActive)
        => (/\ lastFile'.calls = <<>>
            /\ lastFile'.reorders = <<>>
            /\ files' = files
            /\ DragStateClean')]_vars

\* The drag of an unknown id has ended over a folder's header while a folder
\* was hovered, with a sortable item reported by the drag library.
C15_Witness ==
    /\ lastFile.kind = "end"
    /\ ~lastFile.found
    /\ lastFile.over # NoOver
    /\ Truthy(lastFile.hover)
    /\ \E f \in FolderIds : lastFile.stack = <<FolderHeaderEl(f)>>

\* C16: a drag-move event with a coordinate that is not finite is ignored:
\* hoverFolderId and the highlighting stay as they are.  (The step is a drag
\* move: the gesture goes on, no time passes, the watchdog's timer does not run.)
C16_NonFiniteMoveIgnored ==
    [][(dndActive # NoDrag /\ lastMove' # NoMove
        /\ (lastMove'.x \in {NaN, Infinity} \/ lastMove'.y \in {NaN, Infinity})
        /\ dndActive' = dndActive /\ clock' = clock /\ watchdog' = watchdog)
        => UNCHANGED <<hoverFolderId, highlight>>]_vars

\* The last drag-move event was not finite and a folder is still highlighted.
C16_Witness ==
    /\ dndActive # NoDrag
    /\ lastMove.x = NaN
    /\ \E f \in FolderIds : Highlighted(f)

\* C17: highlighting a collapsed folder styles its header only; the content
\* region is styled only when the folder is expanded and the header-only form
\* was not asked for.
C17_ContentOnlyWhenExpanded ==
    /\ \A f \in FolderIds : \A isHeader \in BOOLEAN : \A exp \in SUBSET FolderIds :
          /\ HighlightStyles(f, isHeader, exp).header
          /\ HighlightStyles(f, isHeader, exp).content <=> (f \in exp /\ ~isHeader)
    /\ \A f \in FolderIds :
          /\ highlight[f].content => (f \in expanded /\ highlight[f].header)
          /\ (Highlighted(f) /\ f \notin expanded)
                => (highlight[f].header /\ ~highlight[f].content)

\* A collapsed folder is highlighted while an expanded one is not.
C17_Witness ==
    \E f \in FolderIds \ expanded :
        /\ highlight[f].header
        /\ ~highlight[f].content
        /\ expanded # {}

\* C18: changing a note's format changes only the format attribute: the note's
\* content is unchanged, the editor's content is not set again, and the change
\* by itself sends no save and starts no timer of one.
C18_FormatChangeOnlyFormat ==
    [][(lastEdit'.kind = "format" /\ note'.format # note.format)
        => (/\ note'.content = note.content
            /\ note'.id = note.id
            /\ editorHTML' = editorHTML
            /\ saving' = saving
            /\ timers' = timers)]_vars

\* A quote became a heading while the editor held an edit not saved yet.
C18_Witness ==
    /\ lastEdit.kind = "format"
    /\ note.format = "h1"
    /\ closureNote.format = "quote"
    /\ editorHTML # InitialHTML(note.content)
    /\ \E g \in DOMAIN timers : timers[g].set

\* The id lists a caller can pass: numbers, strings or both.
CallerIdLists == {[k \in NoteKeys |-> NoteId(form, k)] : form \in IdForms}
OnlyStrings(ids) == \A i \in 1..Len(ids) : ids[i].t = "string"

\* C19: every id the client transmits is a string: whatever list the caller
\* passes, the request bodies of updateFileOrder and of updateNoteOrder hold
\* strings only.
C19_TransmittedIdsAreStrings ==
    /\ \A ids \in CallerIdLists : OnlyStrings(FileOrderBody(ids))
    /\ \A i \in 1..Len(noteInflight) : OnlyStrings(noteInflight[i].ids)

\* C20: every failed request is surfaced to the caller once (a rejection, or
\* the health check's false) and is not sent again: no method resolves with
\* ordinary-looking data after its request failed.
C20_FailureSurfacedOnce ==
    lastCall.http = "fail" => (lastCall.result \in {"rejected", "false"} /\ lastCall.sent = 1)

\* ---- the drag state across gestures ----

\* C21: the drag state is consistent at every moment: one file at most is
\* recorded as dragged, and isDragging is true exactly when activeFileId is not
\* null, exactly when dragStartTime is not null.
C21_DragStateConsistent ==
    /\ isDragging <=> activeFileId # Null
    /\ isDragging <=> dragStartTime # Null
    /\ activeFileId # Null => activeFileId \in {String(FileId(k)) : k \in FileKeys}

\* A second drag is in progress while the deferred cleanup of the first is pending.
C21_Witness ==
    /\ isDragging
    /\ lastFile.kind = "end"
    /\ deferred > 0

\* C23: after handleDragEnd has returned, on any of its paths, isDragging is
\* false, activeFileId, hoverFolderId and dragStartTime are null and no folder
\* is highlighted.
C23_DragEndCleans == [][IsFileEndStep => DragStateClean']_vars

\* A drag end whose reading of the elements under the pointer threw, with a
\* folder hovered until then.
C23_Witness ==
    /\ lastFile.kind = "end"
    /\ lastFile.throws
    /\ Truthy(lastFile.hover)
    /\ DragStateClean

\* C24: one drag end makes at most one onMoveToFolder call, and the call names
\* the dragged file, by the string of its id, and no other file.
C24_OneMoveOfDraggedFile ==
    FileEnded =>
        /\ Len(lastFile.calls) <= 1
        /\ \A i \in 1..Len(lastFile.calls) :
              /\ lastFile.calls[i].fileId.t = "string"
              /\ lastFile.calls[i].fileId = String(lastFile.active)

\* The dragged file, whose id the list holds as a number, was moved into a folder.
C24_Witness ==
    /\ FileEnded
    /\ Len(lastFile.calls) = 1
    /\ lastFile.calls[1].folderId # Null
    /\ \E k \in 1..Len(files) :
          files[k].id.t = "number" /\ String(files[k].id) = lastFile.calls[1].fileId

\* C29: a drag end schedules one expandFolder event, for the destination folder
\* and 100 ms later, exactly when it makes a move call into a folder; a move
\* to root, or no move call, schedules none.
C29_ExpandOnMoveIntoFolder ==
    FileEnded =>
        IF lastFile.calls # <<>> /\ lastFile.calls[1].folderId # Null
        THEN lastFile.expands = <<[folderId |-> lastFile.calls[1].folderId, delay |-> 100]>>
        ELSE lastFile.expands = <<>>

\* A move to root, by the marker path, that schedules no expansion.
C29_Witness ==
    /\ FileEnded
    /\ lastFile.calls # <<>>
    /\ lastFile.calls[1].folderId = Null
    /\ ~Truthy(lastFile.hover)
    /\ ~RootAreaFirst(lastFile.stack)
    /\ lastFile.expands = <<>>

\* C30: the dnd-drag-start event of a drag is followed, when the drag ends, by
\* exactly one dnd-drag-end event, on every path of handleDragEnd.
C30_OneDragEndEvent == FileEnded => lastFile.endEvents = 1

\* C25: a folder is highlighted, and hoverFolderId is non-null, only while a
\* file drag is active (activeFileId non-null).
C25_HoverOnlyDuringDrag ==
    (hoverFolderId # Null \/ \E f \in FolderIds : Highlighted(f)) => activeFileId # Null

\* C26: the cleanup a drag end defers never clears the state of a drag started
\* after that drag end: such a drag's isDragging, activeFileId and
\* dragStartTime are still set after the deferred cleanup has run.
C26_DeferredCleanupSparesLaterDrag ==
    [][(deferred' < deferred /\ isDragging)
        => (isDragging' /\ activeFileId' # Null /\ dragStartTime' # Null)]_vars

\* The watchdog's callback runs cleanupDragState.
IsWatchdogCleanup == lastFile'.kind = "watchdog" /\ lastFile' # lastFile

\* C27: a watchdog timer is set only for the drag whose state is in place (it
\* is cancelled when that state is cleared, so no timer of an earlier drag is
\* left for a later one), and its callback cleans up only a drag that has
\* lasted more than 10 s.
C27_WatchdogOnlyItsOwnDrag ==
    /\ [](watchdog.set => (isDragging /\ watchdog.start = dragStartTime))
    /\ [][IsWatchdogCleanup
            => (isDragging /\ clock - dragStartTime.v[1] > WatchdogTicks)]_vars

\* A later drag with its own timer, at a time when the timer of a drag started
\* at the first instant and ended since would have been due.
C27_Witness ==
    /\ lastFile.kind = "end"
    /\ isDragging
    /\ watchdog.set
    /\ dragStartTime.v[1] > 1
    /\ clock > 1 + WatchdogTicks

\* C22: window.tiptapEditors has an entry for a note id exactly when an editor
\* component for that note is mounted.
C22_RegistryMatchesMounted ==
    \A k \in RegistryKeys :
        registry[k] # NoEditor
            <=> \E c \in Editors : mounted[c] # Unmounted /\ String(mounted[c]) = k

\* C28: the body of the throttled mouse-move handler runs at most once in any
\* 100 ms window: no run of the body falls inside the window a run before it
\* opened.
C28_OneRunPerWindow == lastMouse.kind = "run" => ~lastMouse.within

\* C31: a note drag that ends with no over element, on the dragged item itself,
\* or with an active or over id that is not in the list (ids compared as
\* strings) makes no onReorder call, and every onReorder call passes a list
\* that differs from the list before the drag.
C31_ReorderOnlyOnChange ==
    lastNote.kind = "drag" =>
        /\ (\/ lastNote.over = NoOver
            \/ lastNote.over = lastNote.active
            \/ ItemPositions(lastNote.before, lastNote.active) = {}
            \/ ItemPositions(lastNote.before, lastNote.over) = {})
                => lastNote.calls = <<>>
        /\ \A i \in 1..Len(lastNote.calls) : lastNote.calls[i] # lastNote.before

\* An item whose id the list holds as a number was dropped on itself.
C31_Witness ==
    /\ lastNote.kind = "drag"
    /\ lastNote.over = lastNote.active
    /\ \E k \in 1..Len(lastNote.before) :
          /\ lastNote.before[k].id.t = "number"
          /\ String(lastNote.before[k].id) = lastNote.active
    /\ lastNote.calls = <<>>

\* The step is an editor update (handleUpdate ran on a changed document).
IsEditorUpdate == lastEdit'.kind = "update" /\ editorHTML' # editorHTML

\* C32: an editor update that leaves the editor's HTML different from the
\* note's stored content (and not both empty) schedules a save of that HTML for
\* the note.
C32_EditSchedulesSave ==
    [][(/\ IsEditorUpdate
        /\ editorHTML' # note.content
        /\ ~(editorHTML' = EmptyDoc /\ note.content \in {"", EmptyDoc}))
        => (/\ timers'[onUpdateGen].set
            /\ timers'[onUpdateGen].noteId = note.id
            /\ timers'[onUpdateGen].content = editorHTML')]_vars

\* C33: the save an editor update schedules carries the note's format as it is
\* at the time of the update.
C33_SaveCarriesCurrentFormat ==
    [][(IsEditorUpdate /\ timers'[onUpdateGen] # timers[onUpdateGen])
        => timers'[onUpdateGen].format = note.format]_vars

\* An id as the lists should carry it: the string of an id, never the text of
\* undefined or of null, nor the empty string.
IsIdString(x) == x.t = "string" /\ x.v \notin {UndefinedText, NullText, <<>>}

\* C34: the list getAllFiles, getNotes or getFolders resolves with carries, in
\* every row, the id as a string; a file's folder_id is the string of its
\* folder's id or null; a note's file_id is the string of its file's id.
C34_ListIdsAreStringsOrNull ==
    (lastCall.method \in ListMethods /\ lastCall.result \in {"data", "mock"}) =>
        \A i \in 1..Len(lastCall.value) :
            LET row == lastCall.value[i]
            IN  /\ IsIdString(row.id)
                /\ lastCall.method = "getAllFiles"
                        => (row.folder_id = Null \/ IsIdString(row.folder_id))
                /\ lastCall.method = "getNotes" => IsIdString(row.file_id)
====
